---- MODULE Spec2Model ----
(***************************************************************************)
(* lumberjack: branchless level gating, backend dispatch, Span timer and   *)
(* the built-in backend (write buffer, timestamp cache, lock).             *)
(*                                                                         *)
(* Spec     the dispatch registry driven by one thread against mock        *)
(*          backends (core.cpp: set_level, set_backend, log_dispatch,      *)
(*          Span).                                                         *)
(* SpecBI   the built-in backend driven by one thread (builtin.cpp +       *)
(*          utils.h: WriteBuffer, TimestampCache).                         *)
(* SpecMT   the built-in backend driven by several threads, every          *)
(*          operation split at its lock acquisition, its accesses and its  *)
(*          release.                                                       *)
(* SpecTS   the timestamp cache and the sequence counter of the built-in   *)
(*          backend driven by one thread.                                  *)
(* SpecFG   set_level and set_backend one assignment at a time, with       *)
(*          emits and Spans of a second thread in between.                 *)
(* SpecLV   emits and Span ends of several threads through the built-in    *)
(*          backend, waiting for the lock, under weak fairness.            *)
(* SpecSP   the registry with Spans nested in one another.                 *)
(* SpecEM   the registry with runs of consecutive emits and blocks of      *)
(*          nested Spans.                                                  *)
(* SpecLJ   the registry with the built-in backend installed, as init()    *)
(*          leaves it.                                                     *)
(* SpecCM   the registry with a caller that writes to its LogBackend       *)
(*          struct after installing it.                                    *)
(* SpecIN   the library with init() and set_backend called any number of   *)
(*          times, the built-in backend reconfigured in between.           *)
(* SpecSQ   the timestamp cache and the sequence counter driven by several *)
(*          threads while the clock advances.                              *)
(* SpecSL   set_level one assignment at a time while a second thread       *)
(*          emits.                                                         *)
(***************************************************************************)
EXTENDS Integers, Sequences, FiniteSets, TLC

\* ------------------------------------------------------------------------
\* Bounds of the model
\* ------------------------------------------------------------------------
MaxSpans == 1
MaxNested == 2
MaxBatch == 2
MaxTime == 3

\* ------------------------------------------------------------------------
\* enum LogLevel
\* ------------------------------------------------------------------------
LOG_LEVEL_NONE == 0
LOG_LEVEL_ERROR == 1
LOG_LEVEL_WARN == 2
LOG_LEVEL_INFO == 3
LOG_LEVEL_DEBUG == 4
LOG_COUNT == 5

Levels == 0 .. (LOG_COUNT - 1)
MsgLevels == LOG_LEVEL_ERROR .. LOG_LEVEL_DEBUG

\* ------------------------------------------------------------------------
\* Function pointers and backend descriptors (struct LogBackend).
\* A function pointer is <<owner, operation>>; the null pointer is NULL.
\* ------------------------------------------------------------------------
NULL == <<"null", "null">>
NULLPTR == <<>>

Fn(b, op) == <<b, op>>
Owner(f) == f[1]

LogBackend(b) ==
    [name |-> b,
     init |-> Fn(b, "init"),
     shutdown |-> Fn(b, "shutdown"),
     log_write |-> Fn(b, "log_write"),
     span_begin |-> Fn(b, "span_begin"),
     span_end |-> Fn(b, "span_end")]

\* A static initialiser that names the built-in backend.
NoopBackendBuiltin == LogBackend("builtin")

\* Static initialiser of g_activeBackend: the placeholder.
NoopBackend == LogBackend("noop")

Ops == {"init", "shutdown", "log_write", "span_begin", "span_end"}

\* Caller-owned structs handed to set_backend: complete mock backends, the
\* same with one operation missing, one with a missing name.
Without(d, op) == [d EXCEPT ![op] = NULL]
MockNames == {"A", "B"}
CompleteStructs == {LogBackend(b) : b \in MockNames}
IncompleteStructs == {Without(LogBackend("A"), op) : op \in Ops}
NamelessStruct == [LogBackend("B") EXCEPT !.name = "null"]
\* The argument of set_backend: a null pointer or a pointer to a struct.
NullArg == [ptr |-> FALSE, d |-> NoopBackend]
PtrTo(d) == [ptr |-> TRUE, d |-> d]
BackendArgs ==
    {NullArg} \cup
    {PtrTo(d) : d \in CompleteStructs \cup IncompleteStructs \cup {NamelessStruct}}

\* ------------------------------------------------------------------------
\* Messages: printf-style format strings as sequences of characters.
\* ------------------------------------------------------------------------
LOG_BUFFER_SIZE == 1024
Formats == {<<"x">>, <<"n", "%d">>}
FormatArgs == {7}
SpanNames == {<<"s">>}

Min(a, b) == IF a < b THEN a ELSE b

\* snprintf's bound: at most size-1 characters are kept.
Truncate(s, size) == SubSeq(s, 1, Min(Len(s), size - 1))

\* The decimal digits printf writes for an integer.
Digits == <<"0", "1", "2", "3", "4", "5", "6", "7", "8", "9">>

RECURSIVE DecNat(_)
DecNat(n) ==
    IF n < 10 THEN <<Digits[n + 1]>>
    ELSE DecNat(n \div 10) \o <<Digits[(n % 10) + 1]>>

Dec(n) == IF n < 0 THEN <<"-">> \o DecNat(0 - n) ELSE DecNat(n)

RECURSIVE Expand(_, _)
Expand(fmt, arg) ==
    IF fmt = <<>> THEN <<>>
    ELSE IF Head(fmt) = "%d" THEN Dec(arg) \o Expand(Tail(fmt), arg)
    ELSE <<Head(fmt)>> \o Expand(Tail(fmt), arg)

Vsnprintf(fmt, arg) == Truncate(Expand(fmt, arg), LOG_BUFFER_SIZE)

VARIABLES
    g_currentLevel,
    g_logFunctions,
    g_clockFunctions,
    g_spanBeginFunctions,
    g_spanEndFunctions,
    g_activeBackend,
    pc,             \* position of the thread inside set_backend
    sbArg,          \* the struct set_backend is installing
    spans,          \* the live Span objects, innermost last
    now,            \* steady clock
    calls,          \* backend calls made by the operation in progress / last
    lastOp,         \* the operation in progress / last completed
    ready,          \* backends whose init returned after their last shutdown
    levelSet,       \* set_level has been called
    \* -- the built-in backend (builtin.cpp) --
    g_output,       \* FILE* the lines go to
    g_writeBuf,     \* WriteBuffer
    g_tsCache,      \* TimestampCache
    g_seqEnabled,
    g_seqCounter,
    g_mutex,        \* 0 when free, else the thread holding it
    files,          \* the bytes each stream has received
    crashed,        \* the process ran into undefined behaviour and died
    biOp,           \* the built-in operation last completed by one thread
    tpc,            \* per thread: position inside a built-in operation
    tloc,           \* per thread: arguments and locals of that operation
    sent,           \* the lines formatted by builtin_log_write so far
    dirty           \* a reconfiguration ran after the first line was sent

regVars == <<g_currentLevel, g_logFunctions, g_clockFunctions,
             g_spanBeginFunctions, g_spanEndFunctions, g_activeBackend,
             pc, sbArg, spans, now, calls, lastOp, ready, levelSet>>

biVars == <<g_output, g_writeBuf, g_tsCache, g_seqEnabled, g_seqCounter,
            g_mutex, files, crashed, biOp, tpc, tloc, sent, dirty>>

vars == <<regVars, biVars>>

\* A recorded backend call.
Call(f, lvl, text, handle, elapsed) ==
    [fn |-> f, level |-> lvl, text |-> text, handle |-> handle,
     elapsed |-> elapsed]
LifecycleCall(f) == Call(f, 0, <<>>, NULLPTR, 0)

\* The Span record: the four members of class Span, and two facts about its
\* construction: span_begin was delivered to a backend (begun), and the
\* threshold has been the one set by set_level ever since (held).
NoSpan ==
    [m_level |-> 0, m_name |-> <<>>, m_handle |-> NULLPTR, m_start |-> 0,
     begun |-> FALSE, held |-> FALSE]

\* The operation in progress or last completed: its name, the level it was
\* given, whether set_backend accepted its argument, the Span a destructor
\* destroyed, the descriptor that was active when set_backend was entered.
FullOp(name, lvl, ok, s, old) ==
    [op |-> name, level |-> lvl, accepted |-> ok, span |-> s, old |-> old]
SpanOp(name, lvl, ok, s) == FullOp(name, lvl, ok, s, LogBackend("noop"))
Op(name, lvl, ok) == SpanOp(name, lvl, ok, NoSpan)

\* ------------------------------------------------------------------------
\* set_level
\* ------------------------------------------------------------------------
LevelEnabledOffByOne(i, level) == i > 0 /\ i < level
LevelEnabledNoneSlot(i, level) == i <= level
LevelEnabledOneAbove(i, level) == i > 0 /\ i <= level + 1

\* The loop's condition: slot i is wired to the real implementations.
LevelEnabled(i, level) == i > 0 /\ i <= level

LogTable(level) ==
    [i \in Levels |-> IF LevelEnabled(i, level) THEN "log_dispatch" ELSE "log_noop"]
\* The clock slots enabled one level short of the span_end slots.
ClockTableBelow(level) ==
    [i \in Levels |-> IF LevelEnabled(i, level - 1) THEN "clock_real"
                      ELSE "clock_noop"]

ClockTable(level) ==
    [i \in Levels |-> IF LevelEnabled(i, level) THEN "clock_real" ELSE "clock_noop"]
SpanBeginTable(level) ==
    [i \in Levels |-> IF LevelEnabled(i, level) THEN "span_begin_dispatch"
                      ELSE "span_begin_noop"]
SpanEndTable(level) ==
    [i \in Levels |-> IF LevelEnabled(i, level) THEN "span_end_dispatch"
                      ELSE "span_end_noop"]

\* Spans alive across a set_level that changes the threshold lose "held".
Unhold(ss, level) ==
    [k \in 1 .. Len(ss) |->
        [ss[k] EXCEPT !.held = ss[k].held /\ level = g_currentLevel]]

set_level(level) ==
    /\ pc = "idle"
    /\ g_currentLevel' = level
    /\ g_logFunctions' = LogTable(level)
    /\ g_clockFunctions' = ClockTable(level)
    /\ g_spanBeginFunctions' = SpanBeginTable(level)
    /\ g_spanEndFunctions' = SpanEndTable(level)
    /\ levelSet' = TRUE
    /\ spans' = Unhold(spans, level)
    /\ calls' = <<>>
    /\ lastOp' = Op("set_level", level, TRUE)
    /\ UNCHANGED <<g_activeBackend, pc, sbArg, now, ready>>
    /\ UNCHANGED biVars

get_level_default == LOG_LEVEL_INFO

\* get_level()
get_level == g_currentLevel

\* ------------------------------------------------------------------------
\* set_backend, one action per statement group
\* ------------------------------------------------------------------------
ValidBackendNamed(arg) ==
    /\ arg.ptr
    /\ arg.d.name # "null"
    /\ \A op \in Ops : arg.d[op] # NULL

ValidBackendNoSpanEnd(arg) ==
    /\ arg.ptr
    /\ arg.d.init # NULL
    /\ arg.d.shutdown # NULL
    /\ arg.d.log_write # NULL
    /\ arg.d.span_begin # NULL

\* The negation of the early-return condition.
ValidBackend(arg) ==
    /\ arg.ptr
    /\ arg.d.init # NULL
    /\ arg.d.shutdown # NULL
    /\ arg.d.log_write # NULL
    /\ arg.d.span_begin # NULL
    /\ arg.d.span_end # NULL

\* Validation, then g_activeBackend.shutdown().
set_backend(arg) ==
    /\ pc = "idle"
    /\ IF ValidBackend(arg)
       THEN /\ calls' = <<LifecycleCall(g_activeBackend.shutdown)>>
            /\ ready' = ready \ {Owner(g_activeBackend.shutdown)}
            /\ pc' = "sb_copy"
            /\ sbArg' = arg.d
            /\ lastOp' = FullOp("set_backend", 0, TRUE, NoSpan, g_activeBackend)
       ELSE /\ calls' = <<>>
            /\ lastOp' = Op("set_backend", 0, FALSE)
            /\ UNCHANGED <<ready, pc, sbArg>>
    /\ UNCHANGED <<g_currentLevel, g_logFunctions, g_clockFunctions,
                   g_spanBeginFunctions, g_spanEndFunctions, g_activeBackend,
                   spans, now, levelSet>>
    /\ UNCHANGED biVars

CopiedStale(d) == g_activeBackend

\* The value stored by g_activeBackend = *backend.
Copied(d) == d

\* g_activeBackend = *backend.
set_backend_copy ==
    /\ pc = "sb_copy"
    /\ g_activeBackend' = Copied(sbArg)
    /\ pc' = "sb_init"
    /\ UNCHANGED <<g_currentLevel, g_logFunctions, g_clockFunctions,
                   g_spanBeginFunctions, g_spanEndFunctions, sbArg, spans,
                   now, calls, lastOp, ready, levelSet>>
    /\ UNCHANGED biVars

InitFnPrevious == lastOp.old.init

\* The function called by g_activeBackend.init(), after the copy.
InitFn == g_activeBackend.init

\* g_activeBackend.init().
set_backend_init ==
    /\ pc = "sb_init"
    /\ calls' = Append(calls, LifecycleCall(InitFn))
    /\ ready' = ready \cup {Owner(InitFn)}
    /\ pc' = "idle"
    /\ UNCHANGED <<g_currentLevel, g_logFunctions, g_clockFunctions,
                   g_spanBeginFunctions, g_spanEndFunctions, g_activeBackend,
                   sbArg, spans, now, lastOp, levelSet>>
    /\ UNCHANGED biVars

\* A get_backend that hands back the pointer set_backend was given.
get_backend_caller == sbArg

\* get_backend(): the descriptor behind the returned pointer.
get_backend == g_activeBackend

\* The caller of an accepted set_backend assigns to the fields of its own
\* struct, or lets it go out of scope so that the storage holds anything.
caller_modify(d) ==
    /\ pc = "idle"
    /\ sbArg # NoopBackend
    /\ d # sbArg
    /\ sbArg' = d
    /\ calls' = <<>>
    /\ lastOp' = Op("caller_modify", 0, TRUE)
    /\ UNCHANGED <<g_currentLevel, g_logFunctions, g_clockFunctions,
                   g_spanBeginFunctions, g_spanEndFunctions, g_activeBackend,
                   pc, spans, now, ready, levelSet>>
    /\ UNCHANGED biVars

\* ------------------------------------------------------------------------
\* set_level and set_backend statement by statement, as a thread that calls
\* emit or constructs and destroys a Span meanwhile sees them.
\* ------------------------------------------------------------------------
\* The position before each assignment of the loop body, slot by slot.
SlotSteps ==
    <<"sl_0_log", "sl_0_clock", "sl_0_begin", "sl_0_end",
      "sl_1_log", "sl_1_clock", "sl_1_begin", "sl_1_end",
      "sl_2_log", "sl_2_clock", "sl_2_begin", "sl_2_end",
      "sl_3_log", "sl_3_clock", "sl_3_begin", "sl_3_end",
      "sl_4_log", "sl_4_clock", "sl_4_begin", "sl_4_end">>
StepOf(steps, p) == CHOOSE k \in DOMAIN steps : steps[k] = p
InSteps(steps, p) == \E k \in DOMAIN steps : steps[k] = p

\* A set_level call in progress: the level it was given, the value of
\* g_currentLevel it found, and whether an earlier call had filled the tables.
LevelOp(level, from, fromSet) ==
    [op |-> "set_level", level |-> level, accepted |-> TRUE, span |-> NoSpan,
     old |-> LogBackend("noop"), from |-> from, fromSet |-> fromSet]

fg_set_level_clearing(level) ==
    /\ pc = "idle"
    /\ g_currentLevel' = level
    /\ levelSet' = TRUE
    /\ spans' = Unhold(spans, level)
    /\ calls' = <<>>
    /\ lastOp' = LevelOp(level, g_currentLevel, levelSet)
    /\ pc' = SlotSteps[1]
    /\ g_logFunctions' = [i \in Levels |-> "log_noop"]
    /\ UNCHANGED <<g_clockFunctions, g_spanBeginFunctions,
                   g_spanEndFunctions, g_activeBackend, sbArg, now, ready>>
    /\ UNCHANGED biVars

\* g_currentLevel = level; the loop starts.
fg_set_level(level) ==
    /\ pc = "idle"
    /\ g_currentLevel' = level
    /\ levelSet' = TRUE
    /\ spans' = Unhold(spans, level)
    /\ calls' = <<>>
    /\ lastOp' = LevelOp(level, g_currentLevel, levelSet)
    /\ pc' = SlotSteps[1]
    /\ UNCHANGED <<g_logFunctions, g_clockFunctions, g_spanBeginFunctions,
                   g_spanEndFunctions, g_activeBackend, sbArg, now, ready>>
    /\ UNCHANGED biVars

\* One assignment of the loop body: table tb of slot i.
fg_slot_write ==
    /\ InSteps(SlotSteps, pc)
    /\ LET k == StepOf(SlotSteps, pc)
           i == (k - 1) \div 4
           tb == (k - 1) % 4
       IN  /\ g_logFunctions' =
                 IF tb = 0
                 THEN [g_logFunctions EXCEPT ![i] = LogTable(g_currentLevel)[i]]
                 ELSE g_logFunctions
           /\ g_clockFunctions' =
                 IF tb = 1
                 THEN [g_clockFunctions EXCEPT ![i] = ClockTable(g_currentLevel)[i]]
                 ELSE g_clockFunctions
           /\ g_spanBeginFunctions' =
                 IF tb = 2
                 THEN [g_spanBeginFunctions EXCEPT
                          ![i] = SpanBeginTable(g_currentLevel)[i]]
                 ELSE g_spanBeginFunctions
           /\ g_spanEndFunctions' =
                 IF tb = 3
                 THEN [g_spanEndFunctions EXCEPT
                          ![i] = SpanEndTable(g_currentLevel)[i]]
                 ELSE g_spanEndFunctions
           /\ pc' = IF k = Len(SlotSteps) THEN "idle" ELSE SlotSteps[k + 1]
    /\ UNCHANGED <<g_currentLevel, g_activeBackend, sbArg, spans, now, calls,
                   lastOp, ready, levelSet>>
    /\ UNCHANGED biVars

\* g_activeBackend = *backend, member by member in declaration order.
CopySteps == <<"sb_copy", "cp_init", "cp_shutdown", "cp_log_write",
               "cp_span_begin", "cp_span_end">>
Members == <<"name", "init", "shutdown", "log_write", "span_begin", "span_end">>

fg_copy_member ==
    /\ InSteps(CopySteps, pc)
    /\ LET k == StepOf(CopySteps, pc)
       IN  /\ g_activeBackend' =
                 [g_activeBackend EXCEPT ![Members[k]] = Copied(sbArg)[Members[k]]]
           /\ pc' = IF k = Len(CopySteps) THEN "sb_init" ELSE CopySteps[k + 1]
    /\ UNCHANGED <<g_currentLevel, g_logFunctions, g_clockFunctions,
                   g_spanBeginFunctions, g_spanEndFunctions, sbArg, spans,
                   now, calls, lastOp, ready, levelSet>>
    /\ UNCHANGED biVars

\* ------------------------------------------------------------------------
\* The backend calls made by g_logFunctions[level](level, fmt, arg).
LogCalls(level, fmt, arg) ==
    IF g_logFunctions[level] = "log_dispatch"
    THEN <<Call(g_activeBackend.log_write, level, Vsnprintf(fmt, arg), NULLPTR, 0)>>
    ELSE <<>>

emit(level, fmt, arg) ==
    /\ pc = "idle"
    /\ calls' = LogCalls(level, fmt, arg)
    /\ lastOp' = Op("emit", level, TRUE)
    /\ UNCHANGED <<g_currentLevel, g_logFunctions, g_clockFunctions,
                   g_spanBeginFunctions, g_spanEndFunctions, g_activeBackend,
                   pc, sbArg, spans, now, ready, levelSet>>
    /\ UNCHANGED biVars

\* Consecutive LOG_AT statements: each is [level, fmt, arg].
Batches ==
    UNION {[1 .. n -> [level : Levels, fmt : Formats, arg : FormatArgs]] :
              n \in 1 .. MaxBatch}

\* The statements executed last to first.
RECURSIVE EmitAllReversed(_)
EmitAllReversed(batch) ==
    IF batch = <<>> THEN <<>>
    ELSE EmitAllReversed(Tail(batch))
         \o LogCalls(Head(batch).level, Head(batch).fmt, Head(batch).arg)

\* The backend calls of the statements, each returning before the next starts.
RECURSIVE EmitAll(_)
EmitAll(batch) ==
    IF batch = <<>> THEN <<>>
    ELSE LogCalls(Head(batch).level, Head(batch).fmt, Head(batch).arg)
         \o EmitAll(Tail(batch))

emit_batch(batch) ==
    /\ pc = "idle"
    /\ calls' = EmitAll(batch)
    /\ lastOp' = Op("emit_batch", batch[Len(batch)].level, TRUE)
    /\ UNCHANGED <<g_currentLevel, g_logFunctions, g_clockFunctions,
                   g_spanBeginFunctions, g_spanEndFunctions, g_activeBackend,
                   pc, sbArg, spans, now, ready, levelSet>>
    /\ UNCHANGED biVars

\* ------------------------------------------------------------------------
\* Span
\* ------------------------------------------------------------------------
\* g_clockFunctions[level](): clock_noop returns the zero time_point.
ReadClock(level) ==
    IF g_clockFunctions[level] = "clock_real" THEN now ELSE 0

\* What a backend's span_begin returns: the mocks return a handle of their
\* own, the placeholder returns nullptr.
BackendSpanBegin(f, level, name) ==
    IF Owner(f) \in MockNames THEN <<Owner(f), level, name>> ELSE NULLPTR

SpanBeginCalls(level, name) ==
    IF g_spanBeginFunctions[level] = "span_begin_dispatch"
    THEN <<Call(g_activeBackend.span_begin, level, name, NULLPTR, 0)>>
    ELSE <<>>

\* A constructor that leaves m_handle at its nullptr initialiser.
SpanBeginResultDropped(level, name) == NULLPTR

SpanBeginResult(level, name) ==
    IF g_spanBeginFunctions[level] = "span_begin_dispatch"
    THEN BackendSpanBegin(g_activeBackend.span_begin, level, name)
    ELSE NULLPTR

\* The members Span::Span initialises.
NewSpan(level, name) ==
    [m_level |-> level, m_name |-> name,
     m_handle |-> SpanBeginResult(level, name),
     m_start |-> ReadClock(level),
     begun |-> SpanBeginCalls(level, name) # <<>>,
     held |-> levelSet]

\* Span::Span, with at most max Spans alive.
SpanCtorUpTo(max, level, name) ==
    /\ pc = "idle"
    /\ Len(spans) < max
    /\ spans' = Append(spans, NewSpan(level, name))
    /\ calls' = SpanBeginCalls(level, name)
    /\ lastOp' = Op("span_ctor", level, TRUE)
    /\ UNCHANGED <<g_currentLevel, g_logFunctions, g_clockFunctions,
                   g_spanBeginFunctions, g_spanEndFunctions, g_activeBackend,
                   pc, sbArg, now, ready, levelSet>>
    /\ UNCHANGED biVars

SpanCtor(level, name) == SpanCtorUpTo(MaxSpans, level, name)

\* A Span constructed while another may be alive.
nested_span_ctor(level, name) == SpanCtorUpTo(MaxNested, level, name)

SpanEndCallsAlways(s) ==
    <<Call(g_activeBackend.span_end, s.m_level, s.m_name, s.m_handle,
           ReadClock(s.m_level) - s.m_start)>>

\* The backend calls made by Span::~Span for the Span s.
SpanEndCalls(s) ==
    IF g_spanEndFunctions[s.m_level] = "span_end_dispatch"
    THEN <<Call(g_activeBackend.span_end, s.m_level, s.m_name, s.m_handle,
                ReadClock(s.m_level) - s.m_start)>>
    ELSE <<>>

\* Span::~Span, for the innermost live Span.
SpanDtor ==
    /\ pc = "idle"
    /\ spans # <<>>
    /\ LET s == spans[Len(spans)] IN
        /\ calls' = SpanEndCalls(s)
        /\ lastOp' = SpanOp("span_dtor", s.m_level, TRUE, s)
    /\ spans' = SubSeq(spans, 1, Len(spans) - 1)
    /\ UNCHANGED <<g_currentLevel, g_logFunctions, g_clockFunctions,
                   g_spanBeginFunctions, g_spanEndFunctions, g_activeBackend,
                   pc, sbArg, now, ready, levelSet>>
    /\ UNCHANGED biVars

\* A block that declares Spans one inside the other, outermost first, each
\* [level, name], and is left with no other statement in between.
Scopes ==
    UNION {[1 .. n -> [level : MsgLevels, name : SpanNames]] : n \in 1 .. MaxNested}

\* The Spans destroyed in the order they were constructed.
RECURSIVE ScopeCallsFifo(_)
ScopeCallsFifo(ss) ==
    IF ss = <<>> THEN <<>>
    ELSE SpanBeginCalls(Head(ss).level, Head(ss).name)
         \o (IF Len(ss) > 1
             THEN SpanBeginCalls(ss[2].level, ss[2].name)
                  \o SpanEndCalls(NewSpan(Head(ss).level, Head(ss).name))
                  \o SpanEndCalls(NewSpan(ss[2].level, ss[2].name))
             ELSE SpanEndCalls(NewSpan(Head(ss).level, Head(ss).name)))

\* The backend calls of the block: each constructor runs when its declaration
\* is reached, the destructors run at the closing braces, innermost first.
RECURSIVE ScopeCalls(_)
ScopeCalls(ss) ==
    IF ss = <<>> THEN <<>>
    ELSE SpanBeginCalls(Head(ss).level, Head(ss).name)
         \o ScopeCalls(Tail(ss))
         \o SpanEndCalls(NewSpan(Head(ss).level, Head(ss).name))

span_scope(ss) ==
    /\ pc = "idle"
    /\ calls' = ScopeCalls(ss)
    /\ lastOp' = Op("span_scope", ss[1].level, TRUE)
    /\ UNCHANGED <<g_currentLevel, g_logFunctions, g_clockFunctions,
                   g_spanBeginFunctions, g_spanEndFunctions, g_activeBackend,
                   pc, sbArg, spans, now, ready, levelSet>>
    /\ UNCHANGED biVars

\* LOG_AT, Span::Span and Span::~Span on a second thread, at any point of a
\* set_level or set_backend in progress: each reads its table slots and the
\* active descriptor as they are at that moment.
rd_emit(level, fmt, arg) ==
    /\ calls' = LogCalls(level, fmt, arg)
    /\ UNCHANGED <<g_currentLevel, g_logFunctions, g_clockFunctions,
                   g_spanBeginFunctions, g_spanEndFunctions, g_activeBackend,
                   pc, sbArg, spans, now, lastOp, ready, levelSet>>
    /\ UNCHANGED biVars

rd_span_ctor(level, name) ==
    /\ Len(spans) < MaxSpans
    /\ spans' = Append(spans,
           [m_level |-> level, m_name |-> name,
            m_handle |-> SpanBeginResult(level, name),
            m_start |-> ReadClock(level),
            begun |-> SpanBeginCalls(level, name) # <<>>,
            held |-> FALSE])
    /\ calls' = SpanBeginCalls(level, name)
    /\ UNCHANGED <<g_currentLevel, g_logFunctions, g_clockFunctions,
                   g_spanBeginFunctions, g_spanEndFunctions, g_activeBackend,
                   pc, sbArg, now, lastOp, ready, levelSet>>
    /\ UNCHANGED biVars

rd_span_dtor ==
    /\ spans # <<>>
    /\ calls' = SpanEndCalls(spans[Len(spans)])
    /\ spans' = SubSeq(spans, 1, Len(spans) - 1)
    /\ UNCHANGED <<g_currentLevel, g_logFunctions, g_clockFunctions,
                   g_spanBeginFunctions, g_spanEndFunctions, g_activeBackend,
                   pc, sbArg, now, lastOp, ready, levelSet>>
    /\ UNCHANGED biVars

\* The steady clock advances.
Tick ==
    /\ now < MaxTime
    /\ now' = now + 1
    /\ UNCHANGED <<g_currentLevel, g_logFunctions, g_clockFunctions,
                   g_spanBeginFunctions, g_spanEndFunctions, g_activeBackend,
                   pc, sbArg, spans, calls, lastOp, ready, levelSet>>
    /\ UNCHANGED biVars

\* ========================================================================
\* The built-in backend: utils.h (TimestampCache, WriteBuffer), builtin.cpp
\* ========================================================================
MaxLines == 2
MaxReads == 3

STDERR == "stderr"
NULLFILE == "NULL"
\* The streams a caller hands to builtin_set_output.
Files == {STDERR, "f1"}
OutputArgs == Files \cup {NULLFILE}
BufferSizes == {0, 12, 24}
CacheIntervals == {0, 2}
BILevels == {LOG_LEVEL_WARN}
Threads == {1, 2}

LINE_BUFFER_SIZE == 1280
SPAN_MESSAGE_SIZE == 256

g_levelStrings == <<"NONE ", "ERROR", "WARN ", "INFO ", "DEBUG">>

NULLBUF == "nullptr"
HEAP == "heap"

\* ---- TimestampCache ----
TimestampCache0 == [m_interval_ms |-> 0, m_buf |-> <<>>, m_expiry |-> 0]

\* refresh(): the wall clock, formatted.
TSRefresh(c, t) == [c EXCEPT !.m_buf = Dec(t)]

TSSetIntervalKeepExpiry(c, ms) == [c EXCEPT !.m_interval_ms = ms]

\* set_interval_ms
TSSetInterval(c, ms) == [c EXCEPT !.m_interval_ms = ms, !.m_expiry = 0]

TSGetAlwaysRefresh(c, t) ==
    [c |-> [TSRefresh(c, t) EXCEPT !.m_expiry = t + c.m_interval_ms],
     refreshed |-> TRUE]

\* get(&did_refresh)
TSGet(c, t) ==
    IF c.m_interval_ms = 0
    THEN [c |-> TSRefresh(c, t), refreshed |-> TRUE]
    ELSE IF t >= c.m_expiry
         THEN [c |-> [TSRefresh(c, t) EXCEPT !.m_expiry = t + c.m_interval_ms],
               refreshed |-> TRUE]
         ELSE [c |-> c, refreshed |-> FALSE]

\* ---- WriteBuffer ----
\* m_buf is the pointer (NULLBUF or HEAP); mem is what the block holds from
\* its start: the bytes below m_pos are pending, the bytes above are dead and
\* are dropped when m_pos is reset.
WriteBuffer0 ==
    [m_enabled |-> FALSE, m_buf |-> NULLBUF, mem |-> <<>>, m_size |-> 0,
     m_pos |-> 0]

\* The pending bytes m_buf[0 .. m_pos).
Pending(wb) ==
    [i \in 1 .. wb.m_pos |-> IF i <= Len(wb.mem) THEN wb.mem[i] ELSE "?"]

\* A result of a WriteBuffer operation: the buffer, the streams, and the
\* undefined behaviour it ran into ("none", "null_stream", "overflow").
WBResult(wb, fs, ub) == [wb |-> wb, fs |-> fs, ub |-> ub]

\* fwrite(data, 1, len, output); fflush(output)
Fwrite(fs, output, data) ==
    IF output = NULLFILE THEN fs ELSE [fs EXCEPT ![output] = @ \o data]
FwriteUB(output) == IF output = NULLFILE THEN "null_stream" ELSE "none"

WBFlushDiscard(wb, fs, output) ==
    WBResult([wb EXCEPT !.m_pos = 0, !.mem = <<>>], fs, "none")

\* flush(output)
WBFlush(wb, fs, output) ==
    IF wb.m_pos > 0 /\ output # NULLFILE
    THEN WBResult([wb EXCEPT !.m_pos = 0, !.mem = <<>>],
                  Fwrite(fs, output, Pending(wb)), "none")
    ELSE WBResult(wb, fs, "none")

\* What malloc(size) may return: a block, or for size 0 also a null pointer.
MallocResults(size) == IF size = 0 THEN {NULLBUF, HEAP} ELSE {HEAP}

\* enable(): the statements after the flush.
WBEnableRest(wb, size, block) ==
    LET w == IF wb.m_size # size
             THEN [wb EXCEPT !.m_buf = block, !.m_size = size]
             ELSE wb
    IN  [w EXCEPT !.m_pos = 0, !.mem = <<>>, !.m_enabled = TRUE]

\* enable(output, size)
WBEnable(wb, fs, output, size, block) ==
    LET r == WBFlush(wb, fs, output)
    IN  WBResult(WBEnableRest(r.wb, size, block), r.fs, "none")

\* disable(): the statements after the flush.
WBDisableRest(wb) ==
    [wb EXCEPT !.m_buf = NULLBUF, !.m_size = 0, !.m_pos = 0, !.mem = <<>>,
               !.m_enabled = FALSE]

\* disable(output)
WBDisable(wb, fs, output) ==
    LET r == WBFlush(wb, fs, output)
    IN  WBResult(WBDisableRest(r.wb), r.fs, "none")

\* write(): the line takes the memcpy path.
WBBuffers(wb, len) == wb.m_enabled /\ wb.m_buf # NULLBUF /\ len < wb.m_size

WBWriteCopyLineFirst(wb, fs, output, data) ==
    IF ~wb.m_enabled \/ wb.m_buf = NULLBUF
    THEN WBResult(wb, Fwrite(fs, output, data), FwriteUB(output))
    ELSE IF Len(data) >= wb.m_size
    THEN LET r == WBFlush(wb, Fwrite(fs, output, data), output)
         IN  WBResult(r.wb, r.fs, FwriteUB(output))
    ELSE LET r == IF wb.m_pos + Len(data) > wb.m_size
                  THEN WBFlush(wb, fs, output)
                  ELSE WBResult(wb, fs, "none")
         IN  WBResult([r.wb EXCEPT !.mem = Pending(r.wb) \o data], r.fs, "none")

WBWriteCopyEager(wb, fs, output, data) ==
    IF ~wb.m_enabled \/ wb.m_buf = NULLBUF \/ Len(data) >= wb.m_size
    THEN WBResult(wb, Fwrite(fs, output, data), FwriteUB(output))
    ELSE LET r == WBFlush(wb, fs, output)
         IN  WBResult([r.wb EXCEPT !.mem = Pending(r.wb) \o data], r.fs, "none")

WBWriteCopyNoSizeTest(wb, fs, output, data) ==
    IF ~wb.m_enabled \/ wb.m_buf = NULLBUF
    THEN WBResult(wb, Fwrite(fs, output, data), FwriteUB(output))
    ELSE LET r == IF wb.m_pos + Len(data) > wb.m_size
                  THEN WBFlush(wb, fs, output)
                  ELSE WBResult(wb, fs, "none")
         IN  WBResult([r.wb EXCEPT !.mem = Pending(r.wb) \o data], r.fs, "none")

WBWriteCopyNoFlush(wb, fs, output, data) ==
    IF ~wb.m_enabled \/ wb.m_buf = NULLBUF \/ Len(data) >= wb.m_size
    THEN WBResult(wb, Fwrite(fs, output, data), FwriteUB(output))
    ELSE WBResult([wb EXCEPT !.mem = Pending(wb) \o data], fs, "none")

\* write() up to and including the fwrite or the memcpy.
WBWriteCopy(wb, fs, output, data) ==
    IF ~wb.m_enabled \/ wb.m_buf = NULLBUF
    THEN WBResult(wb, Fwrite(fs, output, data), FwriteUB(output))
    ELSE IF Len(data) >= wb.m_size
    THEN LET r == WBFlush(wb, fs, output)
         IN  WBResult(r.wb, Fwrite(r.fs, output, data), FwriteUB(output))
    ELSE LET r == IF wb.m_pos + Len(data) > wb.m_size
                  THEN WBFlush(wb, fs, output)
                  ELSE WBResult(wb, fs, "none")
         IN  WBResult([r.wb EXCEPT !.mem = Pending(r.wb) \o data], r.fs,
                      IF r.wb.m_pos + Len(data) > r.wb.m_size
                      THEN "overflow" ELSE "none")

WBWriteAdvanceNone(wb, len) == wb

\* write(): m_pos += len, after the memcpy.
WBWriteAdvance(wb, len) == [wb EXCEPT !.m_pos = @ + len]

\* write(output, data, len)
WBWrite(wb, fs, output, data) ==
    LET r == WBWriteCopy(wb, fs, output, data)
    IN  IF WBBuffers(wb, Len(data))
        THEN WBResult(WBWriteAdvance(r.wb, Len(data)), r.fs, r.ub)
        ELSE r

\* What the process does after undefined behaviour: a write through a null
\* FILE* kills it, a write past the end of the block may go unnoticed.
CrashOutcomes(ub) ==
    IF ub = "none" THEN {FALSE}
    ELSE IF ub = "null_stream" THEN {TRUE}
    ELSE {TRUE, FALSE}

\* ---- builtin_log_write: formatting ----
\* snprintf(line, sizeof(line), "[%s] [%s] %s\n" / "[%s] [%s] #%lu %s\n", ...)
FormatLine(ts, level, seq, counter, message) ==
    Truncate(<<"[">> \o ts \o <<"]", " ", "[", g_levelStrings[level + 1], "]", " ">>
             \o (IF seq THEN <<"#">> \o Dec(counter) \o <<" ">> ELSE <<>>)
             \o message \o <<"\n">>,
             LINE_BUFFER_SIZE)

LogFormatNoReset(c, seq, counter, t, level, message) ==
    LET r == TSGet(c, t)
    IN  [c |-> r.c,
         counter |-> IF seq THEN counter + 1 ELSE counter,
         refreshed |-> r.refreshed,
         line |-> FormatLine(r.c.m_buf, level, seq, counter, message)]

\* The timestamp and sequence part of builtin_log_write: the cache after the
\* read, the counter after the post-increment, and the formatted line.
LogFormat(c, seq, counter, t, level, message) ==
    LET r == TSGet(c, t)
        n == IF seq /\ r.refreshed THEN 0 ELSE counter
    IN  [c |-> r.c,
         counter |-> IF seq THEN n + 1 ELSE counter,
         refreshed |-> r.refreshed,
         line |-> FormatLine(r.c.m_buf, level, seq, n, message)]

\* snprintf(message, sizeof(message), "SPAN '%s' took %lld us", name, elapsed_us)
SpanMessage(name, elapsed_us) ==
    Truncate(<<"SPAN '">> \o name \o <<"' took ">> \o Dec(elapsed_us) \o <<" us">>,
             SPAN_MESSAGE_SIZE)

\* The message text of the k-th emit of thread t.
ThreadTag == <<"a", "b">>
Message(t, k) ==
    <<ThreadTag[t]>> \o Dec(k) \o (IF k % 2 = 0 THEN <<"!">> ELSE <<>>)

\* ------------------------------------------------------------------------
\* The operations of the built-in backend, each called by one thread while no
\* other thread is inside the backend (lock taken and released in the step).
\* ------------------------------------------------------------------------
\* The operation last completed and the number of bytes pending on entry.
BIOp(name) == [op |-> name, pending |-> g_writeBuf.m_pos]
NoBIOp == [op |-> "none", pending |-> 0]

\* A thread's locals inside a built-in operation; n counts its emits.
NoLocal == [level |-> 0, message |-> <<>>, line |-> <<>>, file |-> STDERR,
            enabled |-> FALSE, size |-> 0, block |-> NULLBUF,
            interval |-> 0, seq |-> FALSE, n |-> 0]

AllIdle == \A t \in Threads : tpc[t] = "idle"
Quiet == ~crashed /\ g_mutex = 0 /\ AllIdle

\* The record of an emitted line: the line, the sink at the time, the time
\* of the timestamp read, whether the read recomputed the timestamp, and
\* whether builtin_set_timestamp_cache was called since.
SentLine(r) ==
    [line |-> r.line, out |-> g_output, at |-> now, refreshed |-> r.refreshed,
     recfg |-> FALSE]

\* What builtin_log_write(level, message) assigns.
LogWriteEffect(level, message) ==
    LET r == LogFormat(g_tsCache, g_seqEnabled, g_seqCounter, now, level, message)
        w == WBWrite(g_writeBuf, files, g_output, r.line)
    IN  /\ g_tsCache' = r.c
        /\ g_seqCounter' = r.counter
        /\ g_writeBuf' = w.wb
        /\ files' = w.fs
        /\ crashed' \in CrashOutcomes(w.ub)
        /\ sent' = Append(sent, SentLine(r))

\* The body of builtin_log_write(level, message), for at most max lines.
EmitBody(level, message, max) ==
    /\ Len(sent) < max
    /\ LogWriteEffect(level, message)
    /\ UNCHANGED <<regVars, g_output, g_seqEnabled, g_mutex, tpc, tloc, dirty>>

LogWriteBody(level, message) == EmitBody(level, message, MaxLines)

builtin_log_write(level) ==
    /\ Quiet
    /\ biOp' = BIOp("log_write")
    /\ LogWriteBody(level, Message(1, Len(sent) + 1))

builtin_span_end(level, name, elapsed_us) ==
    /\ Quiet
    /\ biOp' = BIOp("span_end")
    /\ LogWriteBody(level, SpanMessage(name, elapsed_us))

builtin_shutdown ==
    /\ Quiet
    /\ LET r == WBFlush(g_writeBuf, files, g_output)
       IN  g_writeBuf' = r.wb /\ files' = r.fs
    /\ g_output' = STDERR
    /\ biOp' = BIOp("shutdown")
    /\ UNCHANGED <<regVars, g_tsCache, g_seqEnabled, g_seqCounter, g_mutex,
                   crashed, tpc, tloc, sent, dirty>>

builtin_set_output(file) ==
    /\ Quiet
    /\ LET r == WBFlush(g_writeBuf, files, g_output)
       IN  g_writeBuf' = r.wb /\ files' = r.fs
    /\ g_output' = file
    /\ biOp' = BIOp("set_output")
    /\ UNCHANGED <<regVars, g_tsCache, g_seqEnabled, g_seqCounter, g_mutex,
                   crashed, tpc, tloc, sent, dirty>>

builtin_set_buffered(enabled, buffer_size, block) ==
    /\ Quiet
    /\ LET r == IF enabled
                THEN WBEnable(g_writeBuf, files, g_output, buffer_size, block)
                ELSE WBDisable(g_writeBuf, files, g_output)
       IN  g_writeBuf' = r.wb /\ files' = r.fs
    /\ biOp' = BIOp("set_buffered")
    /\ UNCHANGED <<regVars, g_output, g_tsCache, g_seqEnabled, g_seqCounter,
                   g_mutex, crashed, tpc, tloc, sent, dirty>>

builtin_flush ==
    /\ Quiet
    /\ LET r == WBFlush(g_writeBuf, files, g_output)
       IN  g_writeBuf' = r.wb /\ files' = r.fs
    /\ biOp' = BIOp("flush")
    /\ UNCHANGED <<regVars, g_output, g_tsCache, g_seqEnabled, g_seqCounter,
                   g_mutex, crashed, tpc, tloc, sent, dirty>>

\* The lines emitted so far now have a set_timestamp_cache call after them.
Reconfigure(lines) == [i \in DOMAIN lines |-> [lines[i] EXCEPT !.recfg = TRUE]]

builtin_set_timestamp_cache(interval_ms, seq) ==
    /\ Quiet
    /\ g_tsCache' = TSSetInterval(g_tsCache, interval_ms)
    /\ g_seqEnabled' = seq
    /\ g_seqCounter' = 0
    /\ biOp' = BIOp("set_timestamp_cache")
    /\ sent' = Reconfigure(sent)
    /\ UNCHANGED <<regVars, g_output, g_writeBuf, g_mutex, files, crashed,
                   tpc, tloc, dirty>>

\* builtin_log_write as the subject of the timestamp cache and the sequence
\* counter: up to MaxReads lines.
ts_log_write(level) ==
    /\ Quiet
    /\ biOp' = BIOp("log_write")
    /\ EmitBody(level, Message(1, Len(sent) + 1), MaxReads)

\* ------------------------------------------------------------------------
\* The macros and Span with the built-in backend installed: a call that
\* reaches log_dispatch or span_end_dispatch runs builtin_log_write or
\* builtin_span_end; builtin_span_begin returns nullptr and does nothing.
\* ------------------------------------------------------------------------
LJLevels == {LOG_LEVEL_NONE, LOG_LEVEL_WARN, LOG_LEVEL_INFO}

lj_emit(level, fmt, arg) ==
    /\ pc = "idle"
    /\ Quiet
    /\ calls' = LogCalls(level, fmt, arg)
    /\ lastOp' = Op("emit", level, TRUE)
    /\ IF LogCalls(level, fmt, arg) # <<>>
          /\ g_activeBackend.log_write = Fn("builtin", "log_write")
       THEN /\ Len(sent) < MaxLines
            /\ LogWriteEffect(level, Vsnprintf(fmt, arg))
            /\ biOp' = BIOp("log_write")
       ELSE UNCHANGED <<g_tsCache, g_seqCounter, g_writeBuf, files, crashed,
                        sent, biOp>>
    /\ UNCHANGED <<g_currentLevel, g_logFunctions, g_clockFunctions,
                   g_spanBeginFunctions, g_spanEndFunctions, g_activeBackend,
                   pc, sbArg, spans, now, ready, levelSet>>
    /\ UNCHANGED <<g_output, g_seqEnabled, g_mutex, tpc, tloc, dirty>>

lj_span_dtor ==
    /\ pc = "idle"
    /\ Quiet
    /\ spans # <<>>
    /\ LET s == spans[Len(spans)] IN
        /\ calls' = SpanEndCalls(s)
        /\ lastOp' = SpanOp("span_dtor", s.m_level, TRUE, s)
        /\ IF SpanEndCalls(s) # <<>>
              /\ g_activeBackend.span_end = Fn("builtin", "span_end")
           THEN /\ Len(sent) < MaxLines
                /\ LogWriteEffect(s.m_level,
                                  SpanMessage(s.m_name, SpanEndCalls(s)[1].elapsed))
                /\ biOp' = BIOp("span_end")
           ELSE UNCHANGED <<g_tsCache, g_seqCounter, g_writeBuf, files, crashed,
                            sent, biOp>>
    /\ spans' = SubSeq(spans, 1, Len(spans) - 1)
    /\ UNCHANGED <<g_currentLevel, g_logFunctions, g_clockFunctions,
                   g_spanBeginFunctions, g_spanEndFunctions, g_activeBackend,
                   pc, sbArg, now, ready, levelSet>>
    /\ UNCHANGED <<g_output, g_seqEnabled, g_mutex, tpc, tloc, dirty>>

\* The three statements of set_backend after its validation, run to the end:
InstallDisablesBuffer(d) ==
    /\ calls' = <<LifecycleCall(g_activeBackend.shutdown),
                  LifecycleCall(Copied(d).init)>>
    /\ ready' = (ready \ {Owner(g_activeBackend.shutdown)})
                   \cup {Owner(Copied(d).init)}
    /\ g_activeBackend' = Copied(d)
    /\ sbArg' = d
    /\ IF g_activeBackend.shutdown = Fn("builtin", "shutdown")
       THEN /\ LET r == WBDisable(g_writeBuf, files, g_output)
               IN  g_writeBuf' = r.wb /\ files' = r.fs
            /\ g_output' = STDERR
            /\ biOp' = BIOp("shutdown")
       ELSE UNCHANGED <<g_writeBuf, files, g_output, biOp>>
    /\ UNCHANGED <<pc, now, g_tsCache, g_seqEnabled, g_seqCounter, g_mutex,
                   crashed, tpc, tloc, sent, dirty>>

\* g_activeBackend.shutdown() is builtin_shutdown when the built-in backend
\* is the active one, and does nothing for the placeholder and the mocks;
\* builtin_init does nothing.
Install(d) ==
    /\ calls' = <<LifecycleCall(g_activeBackend.shutdown),
                  LifecycleCall(Copied(d).init)>>
    /\ ready' = (ready \ {Owner(g_activeBackend.shutdown)})
                   \cup {Owner(Copied(d).init)}
    /\ g_activeBackend' = Copied(d)
    /\ sbArg' = d
    /\ IF g_activeBackend.shutdown = Fn("builtin", "shutdown")
       THEN /\ LET r == WBFlush(g_writeBuf, files, g_output)
               IN  g_writeBuf' = r.wb /\ files' = r.fs
            /\ g_output' = STDERR
            /\ biOp' = BIOp("shutdown")
       ELSE UNCHANGED <<g_writeBuf, files, g_output, biOp>>
    /\ UNCHANGED <<pc, now, g_tsCache, g_seqEnabled, g_seqCounter, g_mutex,
                   crashed, tpc, tloc, sent, dirty>>

\* set_backend(backend), as one step.
lj_set_backend(arg) ==
    /\ pc = "idle"
    /\ Quiet
    /\ ValidBackend(arg)
    /\ Install(arg.d)
    /\ lastOp' = FullOp("set_backend", 0, TRUE, NoSpan, g_activeBackend)
    /\ UNCHANGED <<g_currentLevel, g_logFunctions, g_clockFunctions,
                   g_spanBeginFunctions, g_spanEndFunctions, spans, levelSet>>

\* init(): set_backend(builtin_backend()); set_level(LOG_LEVEL_INFO).
lib_init ==
    /\ pc = "idle"
    /\ Quiet
    /\ Install(LogBackend("builtin"))
    /\ g_currentLevel' = LOG_LEVEL_INFO
    /\ g_logFunctions' = LogTable(LOG_LEVEL_INFO)
    /\ g_clockFunctions' = ClockTable(LOG_LEVEL_INFO)
    /\ g_spanBeginFunctions' = SpanBeginTable(LOG_LEVEL_INFO)
    /\ g_spanEndFunctions' = SpanEndTable(LOG_LEVEL_INFO)
    /\ levelSet' = TRUE
    /\ spans' = Unhold(spans, LOG_LEVEL_INFO)
    /\ lastOp' = FullOp("init", LOG_LEVEL_INFO, TRUE, NoSpan, g_activeBackend)

\* ------------------------------------------------------------------------
\* The same operations called by several threads. A step is the lock
\* acquisition of std::lock_guard, one access group of the body, or the
\* release at the end of the scope.
\* ------------------------------------------------------------------------
MTFiles == {"f1"}
MTBufferSizes == {24}
MTCacheIntervals == {2}

AcquireNoWait(t) == g_mutex' = t

\* std::lock_guard<std::mutex> lock(g_mutex): blocks until the mutex is free.
Acquire(t) == g_mutex = 0 /\ g_mutex' = t

\* A thread is between the first and the last access of an operation's body.
BodyPCs == {"lw_format", "lw_write", "lw_advance", "sd_flush", "sd_reset",
            "so_flush", "so_assign", "bf_flush", "bf_apply", "fl_flush",
            "tc_apply", "unlock"}

LinesStarted == Len(sent) + Cardinality({t \in Threads : tpc[t] = "lw_format"})

\* Entering an operation: its arguments are stored, the lock is taken.
Enter(t, pos, loc) ==
    /\ ~crashed
    /\ tpc[t] = "idle"
    /\ Acquire(t)
    /\ tpc' = [tpc EXCEPT ![t] = pos]
    /\ tloc' = [tloc EXCEPT ![t] = loc]

\* A step inside the body of thread t's operation.
Step(t, from, to) ==
    /\ ~crashed
    /\ tpc[t] = from
    /\ tpc' = [tpc EXCEPT ![t] = to]

mt_log_write(t, level) ==
    /\ LinesStarted < MaxLines
    /\ Enter(t, "lw_format",
             [tloc[t] EXCEPT !.level = level,
                             !.message = Message(t, tloc[t].n + 1),
                             !.n = @ + 1])
    /\ UNCHANGED <<regVars, g_output, g_writeBuf, g_tsCache, g_seqEnabled,
                   g_seqCounter, files, crashed, biOp, sent, dirty>>

mt_span_end(t, level, name, elapsed_us) ==
    /\ LinesStarted < MaxLines
    /\ Enter(t, "lw_format",
             [tloc[t] EXCEPT !.level = level,
                             !.message = SpanMessage(name, elapsed_us)])
    /\ UNCHANGED <<regVars, g_output, g_writeBuf, g_tsCache, g_seqEnabled,
                   g_seqCounter, files, crashed, biOp, sent, dirty>>

\* builtin_log_write: g_tsCache.get, g_seqCounter, snprintf.
mt_log_format(t) ==
    /\ Step(t, "lw_format", "lw_write")
    /\ LET r == LogFormat(g_tsCache, g_seqEnabled, g_seqCounter, now,
                          tloc[t].level, tloc[t].message)
       IN  /\ g_tsCache' = r.c
           /\ g_seqCounter' = r.counter
           /\ tloc' = [tloc EXCEPT ![t].line = r.line]
           /\ sent' = Append(sent, SentLine(r))
    /\ UNCHANGED <<regVars, g_output, g_writeBuf, g_seqEnabled, g_mutex,
                   files, crashed, biOp, dirty>>

\* g_writeBuf.write: the fwrite, or the flush and the memcpy.
mt_log_copy(t) ==
    /\ Step(t, "lw_write",
            IF WBBuffers(g_writeBuf, Len(tloc[t].line)) THEN "lw_advance"
            ELSE "unlock")
    /\ LET w == WBWriteCopy(g_writeBuf, files, g_output, tloc[t].line)
       IN  /\ g_writeBuf' = w.wb
           /\ files' = w.fs
           /\ crashed' \in CrashOutcomes(w.ub)
    /\ UNCHANGED <<regVars, g_output, g_tsCache, g_seqEnabled, g_seqCounter,
                   g_mutex, biOp, tloc, sent, dirty>>

\* g_writeBuf.write: m_pos += len.
mt_log_advance(t) ==
    /\ Step(t, "lw_advance", "unlock")
    /\ g_writeBuf' = WBWriteAdvance(g_writeBuf, Len(tloc[t].line))
    /\ UNCHANGED <<regVars, g_output, g_tsCache, g_seqEnabled, g_seqCounter,
                   g_mutex, files, crashed, biOp, tloc, sent, dirty>>

\* A reconfiguration that starts after a line was started.
Reconfigured == dirty \/ LinesStarted > 0

mt_shutdown(t) ==
    /\ Enter(t, "sd_flush", tloc[t])
    /\ dirty' = Reconfigured
    /\ UNCHANGED <<regVars, g_output, g_writeBuf, g_tsCache, g_seqEnabled,
                   g_seqCounter, files, crashed, biOp, sent>>

mt_set_output(t, file) ==
    /\ Enter(t, "so_flush", [tloc[t] EXCEPT !.file = file])
    /\ dirty' = Reconfigured
    /\ UNCHANGED <<regVars, g_output, g_writeBuf, g_tsCache, g_seqEnabled,
                   g_seqCounter, files, crashed, biOp, sent>>

mt_set_buffered(t, enabled, buffer_size, block) ==
    /\ Enter(t, "bf_flush",
             [tloc[t] EXCEPT !.enabled = enabled, !.size = buffer_size,
                             !.block = block])
    /\ dirty' = Reconfigured
    /\ UNCHANGED <<regVars, g_output, g_writeBuf, g_tsCache, g_seqEnabled,
                   g_seqCounter, files, crashed, biOp, sent>>

mt_flush(t) ==
    /\ Enter(t, "fl_flush", tloc[t])
    /\ UNCHANGED <<regVars, g_output, g_writeBuf, g_tsCache, g_seqEnabled,
                   g_seqCounter, files, crashed, biOp, sent, dirty>>

mt_set_timestamp_cache(t, interval_ms, seq) ==
    /\ Enter(t, "tc_apply",
             [tloc[t] EXCEPT !.interval = interval_ms, !.seq = seq])
    /\ dirty' = Reconfigured
    /\ UNCHANGED <<regVars, g_output, g_writeBuf, g_tsCache, g_seqEnabled,
                   g_seqCounter, files, crashed, biOp, sent>>

\* g_writeBuf.flush(g_output) in shutdown, set_output, set_buffered, flush.
mt_flush_step(t) ==
    /\ \/ Step(t, "sd_flush", "sd_reset")
       \/ Step(t, "so_flush", "so_assign")
       \/ Step(t, "bf_flush", "bf_apply")
       \/ Step(t, "fl_flush", "unlock")
    /\ LET r == WBFlush(g_writeBuf, files, g_output)
       IN  g_writeBuf' = r.wb /\ files' = r.fs
    /\ UNCHANGED <<regVars, g_output, g_tsCache, g_seqEnabled, g_seqCounter,
                   g_mutex, crashed, biOp, tloc, sent, dirty>>

\* g_output = stderr / g_output = file.
mt_output_assign(t) ==
    /\ \/ Step(t, "sd_reset", "unlock") /\ g_output' = STDERR
       \/ Step(t, "so_assign", "unlock") /\ g_output' = tloc[t].file
    /\ UNCHANGED <<regVars, g_writeBuf, g_tsCache, g_seqEnabled, g_seqCounter,
                   g_mutex, files, crashed, biOp, tloc, sent, dirty>>

\* enable() / disable() after their flush.
mt_buffered_apply(t) ==
    /\ Step(t, "bf_apply", "unlock")
    /\ g_writeBuf' = IF tloc[t].enabled
                     THEN WBEnableRest(g_writeBuf, tloc[t].size, tloc[t].block)
                     ELSE WBDisableRest(g_writeBuf)
    /\ UNCHANGED <<regVars, g_output, g_tsCache, g_seqEnabled, g_seqCounter,
                   g_mutex, files, crashed, biOp, tloc, sent, dirty>>

mt_timestamp_apply(t) ==
    /\ Step(t, "tc_apply", "unlock")
    /\ g_tsCache' = TSSetInterval(g_tsCache, tloc[t].interval)
    /\ g_seqEnabled' = tloc[t].seq
    /\ g_seqCounter' = 0
    /\ sent' = Reconfigure(sent)
    /\ UNCHANGED <<regVars, g_output, g_writeBuf, g_mutex, files, crashed,
                   biOp, tloc, dirty>>

\* The lock_guard goes out of scope.
mt_unlock(t) ==
    /\ Step(t, "unlock", "idle")
    /\ g_mutex' = 0
    /\ tloc' = [tloc EXCEPT ![t] = [NoLocal EXCEPT !.n = tloc[t].n]]
    /\ UNCHANGED <<regVars, g_output, g_writeBuf, g_tsCache, g_seqEnabled,
                   g_seqCounter, files, crashed, biOp, sent, dirty>>

\* ------------------------------------------------------------------------
\* Emits and Span ends of several threads with the call and the lock
\* acquisition as separate steps: a thread that has called builtin_log_write
\* waits at "lw_lock" until the mutex is free.
\* ------------------------------------------------------------------------
\* builtin_span_end with a lock_guard of its own.
SpanEndLockTaken(t) == Acquire(t)

\* builtin_span_end declares no lock_guard: the mutex is first touched by the
\* builtin_log_write it calls.
SpanEndLock(t) == UNCHANGED g_mutex

LVStarted ==
    Len(sent) + Cardinality({t \in Threads : tpc[t] \in {"lw_lock", "lw_format"}})

\* The call of builtin_log_write, up to its lock_guard.
lv_log_write(t, level) ==
    /\ LVStarted < MaxLines
    /\ Step(t, "idle", "lw_lock")
    /\ tloc' = [tloc EXCEPT ![t] = [@ EXCEPT !.level = level,
                                             !.message = Message(t, tloc[t].n + 1),
                                             !.n = @ + 1]]
    /\ UNCHANGED <<regVars, g_output, g_writeBuf, g_tsCache, g_seqEnabled,
                   g_seqCounter, g_mutex, files, crashed, biOp, sent, dirty>>

\* builtin_span_end: snprintf into its local message, then the call of
\* builtin_log_write, up to that function's lock_guard.
lv_span_end(t, level, name, elapsed_us) ==
    /\ LVStarted < MaxLines
    /\ Step(t, "idle", "lw_lock")
    /\ SpanEndLock(t)
    /\ tloc' = [tloc EXCEPT ![t] = [@ EXCEPT !.level = level,
                                             !.message = SpanMessage(name, elapsed_us)]]
    /\ UNCHANGED <<regVars, g_output, g_writeBuf, g_tsCache, g_seqEnabled,
                   g_seqCounter, files, crashed, biOp, sent, dirty>>

\* std::lock_guard<std::mutex> lock(g_mutex) in builtin_log_write.
lv_acquire(t) ==
    /\ Step(t, "lw_lock", "lw_format")
    /\ Acquire(t)
    /\ UNCHANGED <<regVars, g_output, g_writeBuf, g_tsCache, g_seqEnabled,
                   g_seqCounter, files, crashed, biOp, tloc, sent, dirty>>

\* The steps a thread takes by itself once it is inside a call.
lv_run(t) ==
    lv_acquire(t) \/ mt_log_format(t) \/ mt_log_copy(t) \/ mt_unlock(t)

\* ------------------------------------------------------------------------
\* Static initialisation of core.cpp
\* ------------------------------------------------------------------------
\* Static initialisers that already hold the built-in backend and the
\* tables of threshold INFO.
InitEnabled ==
    /\ g_currentLevel = LOG_LEVEL_INFO
    /\ g_logFunctions = LogTable(LOG_LEVEL_INFO)
    /\ g_clockFunctions = ClockTable(LOG_LEVEL_INFO)
    /\ g_spanBeginFunctions = SpanBeginTable(LOG_LEVEL_INFO)
    /\ g_spanEndFunctions = SpanEndTable(LOG_LEVEL_INFO)
    /\ g_activeBackend = LogBackend("builtin")
    /\ pc = "idle"
    /\ sbArg = NoopBackend
    /\ spans = <<>>
    /\ now = 1
    /\ calls = <<>>
    /\ lastOp = Op("none", 0, TRUE)
    /\ ready = {}
    /\ levelSet = FALSE
    /\ g_output = STDERR
    /\ g_writeBuf = WriteBuffer0
    /\ g_tsCache = TimestampCache0
    /\ g_seqEnabled = FALSE
    /\ g_seqCounter = 0
    /\ g_mutex = 0
    /\ files = [f \in Files |-> <<>>]
    /\ crashed = FALSE
    /\ biOp = NoBIOp
    /\ tpc = [t \in Threads |-> "idle"]
    /\ tloc = [t \in Threads |-> NoLocal]
    /\ sent = <<>>
    /\ dirty = FALSE

Init ==
    /\ g_currentLevel = LOG_LEVEL_INFO
    /\ g_logFunctions = [i \in Levels |-> "log_noop"]
    /\ g_clockFunctions = [i \in Levels |-> "clock_noop"]
    /\ g_spanBeginFunctions = [i \in Levels |-> "span_begin_noop"]
    /\ g_spanEndFunctions = [i \in Levels |-> "span_end_noop"]
    /\ g_activeBackend = NoopBackend
    /\ pc = "idle"
    /\ sbArg = NoopBackend
    /\ spans = <<>>
    /\ now = 1
    /\ calls = <<>>
    /\ lastOp = Op("none", 0, TRUE)
    /\ ready = {}
    /\ levelSet = FALSE
    /\ g_output = STDERR
    /\ g_writeBuf = WriteBuffer0
    /\ g_tsCache = TimestampCache0
    /\ g_seqEnabled = FALSE
    /\ g_seqCounter = 0
    /\ g_mutex = 0
    /\ files = [f \in Files |-> <<>>]
    /\ crashed = FALSE
    /\ biOp = NoBIOp
    /\ tpc = [t \in Threads |-> "idle"]
    /\ tloc = [t \in Threads |-> NoLocal]
    /\ sent = <<>>
    /\ dirty = FALSE

Next ==
    \/ \E level \in Levels : set_level(level)
    \/ \E arg \in BackendArgs : set_backend(arg)
    \/ set_backend_copy
    \/ set_backend_init
    \/ \E level \in Levels, fmt \in Formats, arg \in FormatArgs :
          emit(level, fmt, arg)
    \/ \E level \in Levels, name \in SpanNames : SpanCtor(level, name)
    \/ SpanDtor
    \/ Tick

Spec == Init /\ [][Next]_vars

\* Reconfiguration statement by statement on one thread, emits and Spans on
\* another.
NextFG ==
    \/ \E level \in Levels : fg_set_level(level)
    \/ fg_slot_write
    \/ \E arg \in BackendArgs : set_backend(arg)
    \/ fg_copy_member
    \/ set_backend_init
    \/ \E level \in MsgLevels, fmt \in Formats, arg \in FormatArgs :
          rd_emit(level, fmt, arg)
    \/ \E level \in MsgLevels, name \in SpanNames : rd_span_ctor(level, name)
    \/ rd_span_dtor

SpecFG == Init /\ [][NextFG]_vars

\* set_level statement by statement while another thread emits.
NextSL ==
    \/ \E level \in Levels : fg_set_level(level)
    \/ fg_slot_write
    \/ \E level \in MsgLevels, fmt \in Formats, arg \in FormatArgs :
          rd_emit(level, fmt, arg)

SpecSL == Init /\ [][NextSL]_vars

\* The sink and write-buffer operations of the built-in backend, called
\* directly by one thread; the timestamp cache keeps its initial setting.
NextBI ==
    \/ \E level \in BILevels : builtin_log_write(level)
    \/ \E level \in BILevels, name \in SpanNames : builtin_span_end(level, name, now)
    \/ builtin_shutdown
    \/ \E file \in OutputArgs : builtin_set_output(file)
    \/ \E enabled \in BOOLEAN, size \in BufferSizes :
          \E block \in MallocResults(size) :
             builtin_set_buffered(enabled, size, block)
    \/ builtin_flush
    \/ Tick

SpecBI == Init /\ [][NextBI]_vars

\* The timestamp cache and the sequence counter of the built-in backend,
\* called directly by one thread, unbuffered.
NextTS ==
    \/ \E level \in BILevels : ts_log_write(level)
    \/ \E ms \in CacheIntervals, seq \in BOOLEAN :
          builtin_set_timestamp_cache(ms, seq)
    \/ Tick

SpecTS == Init /\ [][NextTS]_vars

\* The built-in backend called by several threads.
NextMT ==
    \/ \E t \in Threads, level \in BILevels : mt_log_write(t, level)
    \/ \E t \in Threads, level \in BILevels, name \in SpanNames :
          mt_span_end(t, level, name, now)
    \/ \E t \in Threads : mt_log_format(t)
    \/ \E t \in Threads : mt_log_copy(t)
    \/ \E t \in Threads : mt_log_advance(t)
    \/ \E t \in Threads : mt_shutdown(t)
    \/ \E t \in Threads, file \in MTFiles : mt_set_output(t, file)
    \/ \E t \in Threads, enabled \in BOOLEAN, size \in MTBufferSizes :
          \E block \in MallocResults(size) :
             mt_set_buffered(t, enabled, size, block)
    \/ \E t \in Threads : mt_flush(t)
    \/ \E t \in Threads, ms \in MTCacheIntervals, seq \in BOOLEAN :
          mt_set_timestamp_cache(t, ms, seq)
    \/ \E t \in Threads : mt_flush_step(t)
    \/ \E t \in Threads : mt_output_assign(t)
    \/ \E t \in Threads : mt_buffered_apply(t)
    \/ \E t \in Threads : mt_timestamp_apply(t)
    \/ \E t \in Threads : mt_unlock(t)

SpecMT == Init /\ [][NextMT]_vars

\* The timestamp cache and the sequence counter of the built-in backend,
\* called by several threads while the clock advances, unbuffered.
NextSQ ==
    \/ \E t \in Threads, level \in BILevels : mt_log_write(t, level)
    \/ \E t \in Threads : mt_log_format(t)
    \/ \E t \in Threads : mt_log_copy(t)
    \/ \E t \in Threads, ms \in CacheIntervals, seq \in BOOLEAN :
          mt_set_timestamp_cache(t, ms, seq)
    \/ \E t \in Threads : mt_timestamp_apply(t)
    \/ \E t \in Threads : mt_unlock(t)
    \/ Tick

SpecSQ == Init /\ [][NextSQ]_vars

\* The library with its built-in backend installed once, as init() does:
\* thresholds, emits and Spans on one thread, the backend buffered or not.
NextLJ ==
    \/ \E level \in LJLevels : set_level(level)
    \/ /\ g_activeBackend.name # "builtin"
       /\ set_backend(PtrTo(LogBackend("builtin")))
    \/ set_backend_copy
    \/ set_backend_init
    \/ \E level \in LJLevels, arg \in FormatArgs : lj_emit(level, <<"x">>, arg)
    \/ \E level \in LJLevels, name \in SpanNames : SpanCtor(level, name)
    \/ lj_span_dtor
    \/ \E size \in MTBufferSizes : builtin_set_buffered(TRUE, size, HEAP)
    \/ \E ms \in MTCacheIntervals : builtin_set_timestamp_cache(ms, TRUE)

SpecLJ == Init /\ [][NextLJ]_vars

\* The registry on one thread, with a caller that writes to its struct
\* after installing it.
NextCM ==
    \/ \E level \in Levels : set_level(level)
    \/ \E arg \in BackendArgs : set_backend(arg)
    \/ set_backend_copy
    \/ set_backend_init
    \/ \E d \in CompleteStructs \cup IncompleteStructs \cup {NamelessStruct} :
          caller_modify(d)
    \/ \E level \in Levels, fmt \in Formats, arg \in FormatArgs :
          emit(level, fmt, arg)
    \/ \E level \in Levels, name \in SpanNames : SpanCtor(level, name)
    \/ SpanDtor

SpecCM == Init /\ [][NextCM]_vars

\* The library with init() and set_backend called any number of times,
\* between emits and reconfigurations of the built-in backend.
NextIN ==
    \/ lib_init
    \/ \E b \in {"builtin", "A"} : lj_set_backend(PtrTo(LogBackend(b)))
    \/ \E level \in LJLevels : set_level(level)
    \/ \E level \in LJLevels, arg \in FormatArgs : lj_emit(level, <<"x">>, arg)
    \/ \E file \in MTFiles : builtin_set_output(file)
    \/ \E size \in MTBufferSizes : builtin_set_buffered(TRUE, size, HEAP)
    \/ \E ms \in MTCacheIntervals : builtin_set_timestamp_cache(ms, TRUE)

SpecIN == Init /\ [][NextIN]_vars

\* Runs of consecutive emits and blocks of nested Spans between set_level
\* and set_backend calls.
NextEM ==
    \/ \E level \in Levels : set_level(level)
    \/ \E arg \in BackendArgs : set_backend(arg)
    \/ set_backend_copy
    \/ set_backend_init
    \/ \E batch \in Batches : emit_batch(batch)
    \/ \E ss \in Scopes : span_scope(ss)

SpecEM == Init /\ [][NextEM]_vars

\* Spans nested in one another on one thread, between set_level and
\* set_backend calls.
NextSP ==
    \/ \E level \in Levels : set_level(level)
    \/ \E arg \in BackendArgs : set_backend(arg)
    \/ set_backend_copy
    \/ set_backend_init
    \/ \E level \in Levels, name \in SpanNames : nested_span_ctor(level, name)
    \/ SpanDtor

SpecSP == Init /\ [][NextSP]_vars

\* Threads emitting and ending Spans through the built-in backend in its
\* initial configuration; every thread inside a call keeps being scheduled.
NextLV ==
    \/ \E t \in Threads, level \in BILevels : lv_log_write(t, level)
    \/ \E t \in Threads, level \in BILevels, name \in SpanNames :
          lv_span_end(t, level, name, now)
    \/ \E t \in Threads : lv_acquire(t)
    \/ \E t \in Threads : mt_log_format(t)
    \/ \E t \in Threads : mt_log_copy(t)
    \/ \E t \in Threads : mt_unlock(t)
    \/ Tick

SpecLV == Init /\ [][NextLV]_vars /\ \A t \in Threads : WF_vars(lv_run(t))

\* ========================================================================
\* Properties of the dispatch registry (checked under Spec)
\* ========================================================================

\* C1: once set_level(T) has been the last set_level call, an emit at a
\* message level L in ERROR..DEBUG makes exactly one log_write call on the
\* active backend (with level L) when L <= T, and no backend call when L > T.
C1_LevelGating ==
    (levelSet /\ lastOp.op = "emit" /\ lastOp.level \in MsgLevels) =>
        IF lastOp.level <= g_currentLevel
        THEN /\ Len(calls) = 1
             /\ calls[1].fn = g_activeBackend.log_write
             /\ calls[1].level = lastOp.level
        ELSE calls = <<>>

C1_Witness ==
    /\ levelSet
    /\ lastOp.op = "emit"
    /\ lastOp.level = LOG_LEVEL_WARN
    /\ g_currentLevel = LOG_LEVEL_WARN
    /\ Len(calls) = 1
    /\ calls[1].fn = Fn("A", "log_write")

\* C2: an accepted set_backend calls shutdown on the previously active
\* descriptor, then stores a copy of the new descriptor, then calls init on
\* the new descriptor; the first installation shuts the placeholder down.
C2_InstallOrder ==
    (lastOp.op = "set_backend" /\ lastOp.accepted) =>
        /\ pc = "sb_copy" =>
              /\ calls = <<LifecycleCall(lastOp.old.shutdown)>>
              /\ g_activeBackend = lastOp.old
        /\ pc = "sb_init" =>
              /\ calls = <<LifecycleCall(lastOp.old.shutdown)>>
              /\ g_activeBackend = sbArg
        /\ pc = "idle" =>
              /\ calls = <<LifecycleCall(lastOp.old.shutdown),
                           LifecycleCall(sbArg.init)>>
              /\ g_activeBackend = sbArg

C2_Witness ==
    /\ lastOp.op = "set_backend"
    /\ lastOp.accepted
    /\ pc = "idle"
    /\ lastOp.old = LogBackend("A")
    /\ g_activeBackend = LogBackend("B")
    /\ calls = <<LifecycleCall(Fn("A", "shutdown")), LifecycleCall(Fn("B", "init"))>>

\* C3: with the threshold held at the T given to set_level for the whole
\* lifetime of a Span of message level L, the constructor makes exactly one
\* span_begin call and the destructor exactly one span_end call, both with
\* the Span's level and name, when L <= T; neither makes any call when L > T.
C3_SpanGating ==
    /\ (lastOp.op = "span_ctor" /\ levelSet /\ lastOp.level \in MsgLevels) =>
          LET s == spans[Len(spans)] IN
          IF lastOp.level <= g_currentLevel
          THEN /\ s.begun
               /\ calls = <<Call(g_activeBackend.span_begin, s.m_level,
                                 s.m_name, NULLPTR, 0)>>
          ELSE ~s.begun /\ calls = <<>>
    /\ (lastOp.op = "span_dtor" /\ lastOp.span.held
          /\ lastOp.level \in MsgLevels) =>
          LET s == lastOp.span IN
          IF s.m_level <= g_currentLevel
          THEN /\ s.begun
               /\ Len(calls) = 1
               /\ calls[1].fn = g_activeBackend.span_end
               /\ calls[1].level = s.m_level
               /\ calls[1].text = s.m_name
          ELSE ~s.begun /\ calls = <<>>

C3_Witness ==
    /\ lastOp.op = "span_dtor"
    /\ lastOp.span.held
    /\ lastOp.span.begun
    /\ lastOp.span.m_level = LOG_LEVEL_INFO
    /\ g_currentLevel = LOG_LEVEL_INFO
    /\ Len(calls) = 1
    /\ calls[1].fn = Fn("A", "span_end")

\* C4: set_backend with a null pointer, or with a struct in which one of the
\* five operations is null, calls nothing and changes neither the active
\* descriptor nor the threshold nor a dispatch table.
ArgComplete(arg) == arg.ptr /\ \A op \in Ops : arg.d[op] # NULL

C4_RejectNoEffect ==
    [][\A arg \in BackendArgs :
          (~ArgComplete(arg) /\ set_backend(arg)) =>
              /\ calls' = <<>>
              /\ UNCHANGED <<g_currentLevel, g_logFunctions, g_clockFunctions,
                             g_spanBeginFunctions, g_spanEndFunctions,
                             g_activeBackend, pc, spans, ready>>]_vars

C4_Witness ==
    /\ lastOp.op = "set_backend"
    /\ ~lastOp.accepted
    /\ pc = "idle"
    /\ calls = <<>>
    /\ g_activeBackend = LogBackend("A")

\* C5: a Span whose constructor delivered span_begin delivers exactly one
\* span_end when it is destroyed, whatever happened during its lifetime.
C5_EndForEveryBegin ==
    (lastOp.op = "span_dtor" /\ lastOp.span.begun) =>
        /\ Len(calls) = 1
        /\ calls[1].fn = g_activeBackend.span_end

\* C6: no span_end is delivered for a Span whose construction-time clock
\* read was the no-op sentinel (whose span_begin was gated off).
C6_NoEndForGatedSpan ==
    (lastOp.op = "span_dtor" /\ lastOp.span.m_start = 0 /\ ~lastOp.span.begun) =>
        calls = <<>>

\* C7 as stated: every log_write, span_begin and span_end call goes to a
\* descriptor whose init has returned.
IsDelivery(c) == c.fn[2] \in {"log_write", "span_begin", "span_end"}

C7_InitBeforeUse ==
    \A i \in 1 .. Len(calls) :
        IsDelivery(calls[i]) => Owner(calls[i].fn) \in ready

\* C7 amended: every log_write, span_begin and span_end call made on a
\* descriptor that set_backend installed goes to a descriptor whose init has
\* returned since its last shutdown; only the initial placeholder, which is
\* never initialised, is called without a preceding init.
C7_InitBeforeUseInstalled ==
    \A i \in 1 .. Len(calls) :
        (IsDelivery(calls[i]) /\ calls[i].fn # NoopBackend[calls[i].fn[2]]) =>
            Owner(calls[i].fn) \in ready

C7_Witness ==
    /\ lastOp.op = "emit"
    /\ Len(calls) = 1
    /\ calls[1].fn = Fn("B", "log_write")
    /\ lastOp.level = LOG_LEVEL_ERROR
    /\ ready = {"B"}

\* ========================================================================
\* Properties of the built-in backend
\* ========================================================================

\* C10: when set_output or set_buffered (enable with any capacity, re-enable,
\* disable) runs while bytes are pending and the current sink is a stream,
\* exactly the pending bytes are appended to the sink that was current before
\* the call, no other stream receives a byte, and nothing stays pending.
C10_FlushBeforeReconfigure ==
    [][((\/ \E file \in OutputArgs : builtin_set_output(file)
         \/ \E enabled \in BOOLEAN, size \in BufferSizes :
               \E block \in MallocResults(size) :
                  builtin_set_buffered(enabled, size, block))
        /\ g_output # NULLFILE)
       => /\ files' = [files EXCEPT ![g_output] = @ \o Pending(g_writeBuf)]
          /\ g_writeBuf'.m_pos = 0]_vars

C10_Witness ==
    /\ biOp.op = "set_output"
    /\ biOp.pending > 0
    /\ g_output = "f1"
    /\ Len(files[STDERR]) = biOp.pending
    /\ files["f1"] = <<>>
    /\ g_writeBuf.m_pos = 0

\* C8: a thread that is inside the body of a built-in operation (log_write,
\* span_end via log_write, shutdown, set_output, set_buffered, flush,
\* set_timestamp_cache), from its first access of the sink, write buffer,
\* timestamp cache or sequence counter to its last, holds the backend lock;
\* hence at most one thread is inside such a body at a time.
C8_LockHeldDuringAccess ==
    /\ \A t \in Threads : tpc[t] \in BodyPCs => g_mutex = t
    /\ Cardinality({t \in Threads : tpc[t] \in BodyPCs}) <= 1

C8_Witness ==
    /\ tpc[1] = "lw_advance"
    /\ g_mutex = 1
    /\ tpc[2] = "idle"
    /\ tloc[2].n > 0
    /\ g_writeBuf.mem # <<>>

IsPrefix(p, q) == Len(p) <= Len(q) /\ SubSeq(q, 1, Len(p)) = p

\* bytes is the lines sent[i], i \in idx, each once, one after the other in
\* some order.
RECURSIVE HoldsExactly(_, _)
HoldsExactly(bytes, idx) ==
    IF idx = {}
    THEN bytes = <<>>
    ELSE \E i \in idx :
            /\ IsPrefix(sent[i].line, bytes)
            /\ HoldsExactly(SubSeq(bytes, Len(sent[i].line) + 1, Len(bytes)),
                            idx \ {i})

\* C9: when threads emit through the built-in backend, buffered or not, and
\* no reconfiguration starts after the first emit, then once every emit has
\* returned and nothing is pending in the write buffer (as after flush), the
\* sink holds every emitted line exactly once, each as one contiguous run of
\* bytes.
C9_ConcurrentLinesIntact ==
    (~dirty /\ ~crashed /\ AllIdle /\ g_mutex = 0 /\ g_writeBuf.m_pos = 0)
    => HoldsExactly(files[g_output], DOMAIN sent)

C9_Witness ==
    /\ ~dirty /\ ~crashed /\ AllIdle /\ g_mutex = 0
    /\ g_writeBuf.m_enabled /\ g_writeBuf.m_buf = HEAP
    /\ g_writeBuf.m_pos = 0
    /\ tloc[1].n = 1 /\ tloc[2].n = 1
    /\ Len(sent) = 2
    /\ Len(sent[1].line) + Len(sent[2].line) <= g_writeBuf.m_size
    /\ files[g_output] = sent[1].line \o sent[2].line

RECURSIVE FieldEnd(_, _, _)
FieldEnd(line, i, ch) ==
    IF i > Len(line) \/ line[i] = ch THEN i ELSE FieldEnd(line, i + 1, ch)

\* The timestamp of a line "[timestamp] [LEVEL] ...".
TsOf(line) == SubSeq(line, 2, FieldEnd(line, 2, "]") - 1)

\* Lines i and j, i before j, were emitted under the interval now in force.
SameSetting(i, j) ==
    /\ i < j
    /\ ~sent[i].recfg
    /\ g_tsCache.m_interval_ms > 0

\* C12 (as stated): with interval I > 0, two emits less than I apart with no
\* set_timestamp_cache call between them carry identical timestamps.
C12_SameWithinInterval ==
    \A i, j \in DOMAIN sent :
       (SameSetting(i, j) /\ sent[j].at - sent[i].at < g_tsCache.m_interval_ms)
       => TsOf(sent[j].line) = TsOf(sent[i].line)

\* C12 (amended): with interval I > 0, an emit less than I after an emit that
\* recomputed the timestamp, with no set_timestamp_cache call between them,
\* reuses the cached timestamp and carries the identical string.
C12_SameSinceRefresh ==
    \A i, j \in DOMAIN sent :
       (/\ SameSetting(i, j)
        /\ sent[i].refreshed
        /\ sent[j].at - sent[i].at < g_tsCache.m_interval_ms)
       => /\ ~sent[j].refreshed
          /\ TsOf(sent[j].line) = TsOf(sent[i].line)

\* The clock moved between the two emits, yet the second reused the string.
C12_Witness ==
    /\ Len(sent) >= 2
    /\ SameSetting(1, 2)
    /\ sent[1].refreshed
    /\ sent[2].at = sent[1].at + 1
    /\ sent[2].at < sent[1].at + g_tsCache.m_interval_ms
    /\ TsOf(sent[2].line) = Dec(sent[1].at)

\* The value of a sequence of decimal digits.
DigitValue(ch) == (CHOOSE k \in 1 .. 10 : Digits[k] = ch) - 1
RECURSIVE ParseNat(_)
ParseNat(ds) ==
    IF ds = <<>> THEN 0
    ELSE 10 * ParseNat(SubSeq(ds, 1, Len(ds) - 1)) + DigitValue(ds[Len(ds)])

\* Where the "#N " field of a line starts, if the line has one: after
\* "[timestamp] [LEVEL] ".
SeqAt(line) == FieldEnd(line, 2, "]") + 6
HasSeq(line) == SeqAt(line) <= Len(line) /\ line[SeqAt(line)] = "#"
SeqOf(line) ==
    ParseNat(SubSeq(line, SeqAt(line) + 1,
                    FieldEnd(line, SeqAt(line) + 1, " ") - 1))

\* C13: with sequence numbering enabled, the line of an emit that recomputed
\* the timestamp carries #0, and the line of an emit that reused the cached
\* timestamp carries the number of the line before it plus one.
C13_SequenceResetsOnRefresh ==
    \A j \in DOMAIN sent :
       HasSeq(sent[j].line)
       => IF sent[j].refreshed
          THEN SeqOf(sent[j].line) = 0
          ELSE /\ j > 1
               /\ HasSeq(sent[j - 1].line)
               /\ SeqOf(sent[j].line) = SeqOf(sent[j - 1].line) + 1

\* One interval: #0, then #1 on the cached timestamp, then #0 after expiry.
C13_Witness ==
    /\ Len(sent) = 3
    /\ ~sent[1].recfg
    /\ \A j \in 1 .. 3 : HasSeq(sent[j].line)
    /\ sent[1].refreshed /\ SeqOf(sent[1].line) = 0
    /\ ~sent[2].refreshed /\ SeqOf(sent[2].line) = 1
    /\ sent[3].refreshed /\ SeqOf(sent[3].line) = 0

\* C14: once an accepted set_backend(D) has returned, get_backend() yields a
\* descriptor whose name and five operations are those of D, D being the
\* argument of the most recent accepted call, whatever was installed or
\* rejected before or since.
C14_RoundTrip ==
    (pc = "idle" /\ sbArg # NoopBackend)
    => /\ get_backend.name = sbArg.name
       /\ \A op \in Ops : get_backend[op] = sbArg[op]

\* B was installed over A, and a rejected call followed.
C14_Witness ==
    /\ pc = "idle"
    /\ lastOp.op = "set_backend"
    /\ ~lastOp.accepted
    /\ sbArg = LogBackend("B")
    /\ get_backend = LogBackend("B")
    /\ "A" \notin ready

\* C15 (as stated): set_backend with a descriptor whose name is null and
\* whose five operations are present calls nothing and leaves the active
\* descriptor unchanged.
C15_NamelessRejected ==
    [][set_backend(PtrTo(NamelessStruct)) =>
          /\ calls' = <<>>
          /\ UNCHANGED <<g_activeBackend, pc, ready>>]_vars

\* C15 (amended): set_backend with such a descriptor is accepted like any
\* complete one: shutdown is called on the active descriptor, the nameless
\* descriptor is stored, and its init is called.
C15_NamelessAccepted ==
    [][/\ set_backend(PtrTo(NamelessStruct)) =>
             /\ lastOp'.accepted
             /\ calls' = <<LifecycleCall(g_activeBackend.shutdown)>>
             /\ pc' = "sb_copy"
       /\ (sbArg = NamelessStruct /\ set_backend_copy) =>
             g_activeBackend' = NamelessStruct
       /\ (sbArg = NamelessStruct /\ set_backend_init) =>
             /\ calls' = Append(calls, LifecycleCall(NamelessStruct.init))
             /\ UNCHANGED g_activeBackend]_vars

C15_Witness ==
    /\ pc = "idle"
    /\ lastOp.op = "set_backend"
    /\ lastOp.accepted
    /\ lastOp.old = LogBackend("A")
    /\ get_backend.name = "null"
    /\ calls = <<LifecycleCall(LogBackend("A").shutdown),
                 LifecycleCall(NamelessStruct.init)>>

\* C16: at every instant, also between two assignments of set_level's loop
\* and between two member writes of set_backend's copy, every slot of the
\* four dispatch tables holds one of its two functions and each of the five
\* operations of the active descriptor is non-null; a call made by an emit or
\* a Span on another thread goes through a non-null pointer.
C16_NeverNull ==
    /\ \A i \in Levels :
          /\ g_logFunctions[i] \in {"log_noop", "log_dispatch"}
          /\ g_clockFunctions[i] \in {"clock_noop", "clock_real"}
          /\ g_spanBeginFunctions[i] \in {"span_begin_noop", "span_begin_dispatch"}
          /\ g_spanEndFunctions[i] \in {"span_end_noop", "span_end_dispatch"}
    /\ \A op \in Ops : g_activeBackend[op] # NULL
    /\ \A k \in DOMAIN calls : calls[k].fn # NULL

\* An emit went through a descriptor of which B's init and shutdown are
\* already stored while log_write is still A's.
C16_Witness ==
    /\ pc = "cp_log_write"
    /\ g_activeBackend.init = Fn("B", "init")
    /\ g_activeBackend.log_write = Fn("A", "log_write")
    /\ Len(calls) = 1
    /\ calls[1].fn = Fn("A", "log_write")

\* C17: whatever thresholds set_level has been given, and before any call,
\* slot NONE of each of the four dispatch tables holds the no-op; an emit, a
\* Span constructor or a Span destructor at message level NONE makes no
\* backend call.
C17_NoneSlotNoop ==
    /\ g_logFunctions[LOG_LEVEL_NONE] = "log_noop"
    /\ g_clockFunctions[LOG_LEVEL_NONE] = "clock_noop"
    /\ g_spanBeginFunctions[LOG_LEVEL_NONE] = "span_begin_noop"
    /\ g_spanEndFunctions[LOG_LEVEL_NONE] = "span_end_noop"
    /\ (lastOp.op \in {"emit", "span_ctor", "span_dtor"}
          /\ lastOp.level = LOG_LEVEL_NONE) => calls = <<>>

\* Everything is enabled, and a Span of level NONE ended without a call.
C17_Witness ==
    /\ levelSet
    /\ g_currentLevel = LOG_LEVEL_DEBUG
    /\ g_logFunctions[LOG_LEVEL_ERROR] = "log_dispatch"
    /\ lastOp.op = "span_dtor"
    /\ lastOp.level = LOG_LEVEL_NONE
    /\ lastOp.span.m_start = 0
    /\ calls = <<>>

\* C18: get_level() returns INFO as long as set_level has not been called;
\* a set_level(level) call makes it return level; no step of any other
\* operation (set_backend, emit, Span, clock) changes what it returns.
C18_LevelRoundTrip ==
    /\ [](~levelSet => get_level = LOG_LEVEL_INFO)
    /\ [][/\ \A level \in Levels : set_level(level) => get_level' = level
          /\ (get_level' # get_level) => \E level \in Levels : set_level(level)]_vars

\* ERROR was set, then a backend was installed and an emit made.
C18_Witness ==
    /\ levelSet
    /\ get_level = LOG_LEVEL_ERROR
    /\ g_activeBackend = LogBackend("A")
    /\ lastOp.op = "emit"
    /\ Len(calls) = 1

\* An emit of the built-in backend: log_write, or span_end via log_write.
IsEmit ==
    \/ \E level \in BILevels : builtin_log_write(level)
    \/ \E level \in BILevels, name \in SpanNames :
          builtin_span_end(level, name, now)

\* C19: set_buffered(true, 0), from any buffering state and whatever
\* malloc(0) returns, leaves capacity 0 with nothing pending; from then on,
\* with a stream as sink, every emit appends its whole line to the sink
\* before it returns, leaves nothing pending and does not fail.
C19_ZeroCapacityUnbuffered ==
    [][/\ \A block \in MallocResults(0) :
             builtin_set_buffered(TRUE, 0, block) =>
                /\ g_writeBuf'.m_enabled
                /\ g_writeBuf'.m_size = 0
                /\ g_writeBuf'.m_pos = 0
       /\ (g_writeBuf.m_enabled /\ g_writeBuf.m_size = 0
             /\ g_output # NULLFILE /\ IsEmit) =>
                /\ files' = [files EXCEPT
                                ![g_output] = @ \o sent'[Len(sent')].line]
                /\ g_writeBuf'.m_pos = 0
                /\ ~crashed']_vars

\* A line was buffered under a larger capacity; set_buffered(true, 0) got a
\* block from malloc(0); the next emit's line went straight to the sink.
C19_Witness ==
    /\ biOp.op = "log_write"
    /\ biOp.pending = 0
    /\ g_writeBuf.m_enabled
    /\ g_writeBuf.m_size = 0
    /\ g_writeBuf.m_buf = HEAP
    /\ g_writeBuf.m_pos = 0
    /\ Len(sent) = 2
    /\ files[g_output] = sent[1].line \o sent[2].line
    /\ ~crashed

C21_OversizeFlushThenDirect ==
    [][(/\ g_writeBuf.m_enabled /\ g_writeBuf.m_buf # NULLBUF
        /\ g_writeBuf.m_size > 0
        /\ g_output # NULLFILE
        /\ IsEmit
        /\ Len(sent'[Len(sent')].line) >= g_writeBuf.m_size) =>
          /\ files' = [files EXCEPT
                          ![g_output] = @ \o Pending(g_writeBuf)
                                          \o sent'[Len(sent')].line]
          /\ g_writeBuf'.m_pos = 0
          /\ ~crashed']_vars

\* A line of 11 bytes was pending in a buffer of 12 when a longer line came.
C21_Witness ==
    /\ biOp.op \in {"log_write", "span_end"}
    /\ biOp.pending > 0
    /\ g_writeBuf.m_enabled
    /\ g_writeBuf.m_size = 12
    /\ Len(sent) = 2
    /\ Len(sent[2].line) > g_writeBuf.m_size
    /\ files[g_output] = sent[1].line \o sent[2].line
    /\ g_writeBuf.m_pos = 0

\* C22: when builtin_shutdown returns, having been called with a stream as
\* sink, the bytes that were pending have been appended to that sink, nothing
\* is pending, and the sink is standard error.
C22_ShutdownFlushesAndResets ==
    [][(builtin_shutdown /\ g_output # NULLFILE) =>
          /\ files' = [files EXCEPT ![g_output] = @ \o Pending(g_writeBuf)]
          /\ g_writeBuf'.m_pos = 0
          /\ g_output' = STDERR]_vars

\* Shutdown found bytes pending for the file f1.
C22_Witness ==
    /\ biOp.op = "shutdown"
    /\ biOp.pending > 0
    /\ Len(files["f1"]) = biOp.pending
    /\ files[STDERR] = <<>>
    /\ g_output = STDERR
    /\ g_writeBuf.m_pos = 0

\* C23: after builtin_set_timestamp_cache, whatever interval it was given and
\* whatever the cache held, the sequence counter is 0 and the next emit
\* recomputes the timestamp (its line carries the time of that emit, and #0
\* when sequence numbers are on).
C23_ReconfigureForcesRefresh ==
    /\ [](biOp.op = "set_timestamp_cache" => g_seqCounter = 0)
    /\ [][(/\ biOp.op = "set_timestamp_cache"
           /\ \E level \in BILevels : ts_log_write(level)) =>
             LET e == sent'[Len(sent')] IN
             /\ e.refreshed
             /\ TsOf(e.line) = Dec(now)
             /\ g_seqEnabled => (HasSeq(e.line) /\ SeqOf(e.line) = 0)]_vars

\* The second line reused the cached timestamp as #1; the cache was then
\* reconfigured, and a third emit at the same instant recomputed it as #0.
C23_Witness ==
    /\ Len(sent) = 3
    /\ ~sent[2].refreshed /\ HasSeq(sent[2].line) /\ SeqOf(sent[2].line) = 1
    /\ sent[2].recfg /\ ~sent[3].recfg
    /\ sent[3].at = sent[2].at
    /\ g_tsCache.m_interval_ms > 0
    /\ sent[3].refreshed
    /\ HasSeq(sent[3].line) /\ SeqOf(sent[3].line) = 0

\* C24: with interval I > 0, an emit reuses the cached timestamp exactly
\* while the clock is below the stored expiry, a recomputation puts the
\* expiry I after the emit, and two recomputations with no
\* set_timestamp_cache call between them are at least I apart.
C24_RefreshAtMostOncePerInterval ==
    /\ [](\A i, j \in DOMAIN sent :
            (SameSetting(i, j) /\ sent[i].refreshed /\ sent[j].refreshed)
            => sent[j].at - sent[i].at >= g_tsCache.m_interval_ms)
    /\ [][(/\ g_tsCache.m_interval_ms > 0
           /\ \E level \in BILevels : ts_log_write(level)) =>
             LET e == sent'[Len(sent')] IN
             /\ e.refreshed = (now >= g_tsCache.m_expiry)
             /\ e.refreshed => g_tsCache'.m_expiry = now + g_tsCache.m_interval_ms
             /\ ~e.refreshed => /\ g_tsCache' = g_tsCache
                                /\ TsOf(e.line) = g_tsCache.m_buf]_vars

\* Recomputed at 1, reused at 2, recomputed at 3 under an interval of 2.
C24_Witness ==
    /\ Len(sent) = 3
    /\ ~sent[1].recfg
    /\ g_tsCache.m_interval_ms = 2
    /\ sent[1].refreshed /\ sent[1].at = 1
    /\ ~sent[2].refreshed /\ sent[2].at = 2
    /\ sent[3].refreshed /\ sent[3].at = 3
    /\ TsOf(sent[2].line) = TsOf(sent[1].line)
\* C25: when several threads emit and end Spans through the built-in backend,
\* a thread waiting for the lock never holds it itself, and every call that
\* was started eventually returns (span_end, which reaches the lock only
\* through log_write, included).
C25_EveryCallReturns ==
    /\ [](\A t \in Threads : tpc[t] = "lw_lock" => g_mutex # t)
    /\ \A t \in Threads : (tpc[t] # "idle") ~> (tpc[t] = "idle")

\* Thread 2 is in span_end's log_write waiting for the lock, which thread 1
\* holds while writing its line.
C25_Witness ==
    /\ Len(sent) = 1
    /\ g_mutex = 1
    /\ tpc[1] = "lw_write"
    /\ tpc[2] = "lw_lock"
    /\ \E name \in SpanNames : tloc[2].message = SpanMessage(name, now)

\* C26: every span_end call delivered to a backend carries elapsed_us >= 0,
\* whatever operations (set_level while the Span is alive included) came
\* before, the clock never going back.
C26_ElapsedNonNegative ==
    \A k \in DOMAIN calls :
        calls[k].fn[2] = "span_end" => calls[k].elapsed >= 0

\* A Span that was begun at clock 1, lived through a set_level call and was
\* destroyed at clock 3: its span_end is delivered with elapsed 2.
C26_Witness ==
    /\ lastOp.op = "span_dtor"
    /\ lastOp.span.begun
    /\ ~lastOp.span.held
    /\ lastOp.span.m_start = 1
    /\ Len(calls) = 1
    /\ calls[1].fn[2] = "span_end"
    /\ calls[1].elapsed = 2

\* C27: the constructor stores what its own span_begin call returned (nullptr
\* when no call was made), the handle of a live Span never changes, and the
\* destructor hands the destroyed Span's own handle to span_end, also while
\* another Span is alive.
C27_HandlePassThrough ==
    /\ [][(Len(spans') > Len(spans)) =>
             spans'[Len(spans')].m_handle =
                IF calls' = <<>> THEN NULLPTR
                ELSE BackendSpanBegin(calls'[1].fn, calls'[1].level,
                                      calls'[1].text)]_vars
    /\ [][\A k \in DOMAIN spans \cap DOMAIN spans' :
             spans'[k].m_handle = spans[k].m_handle]_vars
    /\ [][(Len(spans') < Len(spans) /\ calls' # <<>>) =>
             /\ Len(calls') = 1
             /\ calls'[1].fn[2] = "span_end"
             /\ calls'[1].handle = spans[Len(spans)].m_handle]_vars

\* The inner of two Spans begun with different handles has been destroyed and
\* its span_end received the inner handle, the outer Span still being alive.
C27_Witness ==
    /\ lastOp.op = "span_dtor"
    /\ lastOp.span.begun
    /\ lastOp.span.m_handle # NULLPTR
    /\ Len(spans) = 1
    /\ spans[1].begun
    /\ spans[1].m_handle # NULLPTR
    /\ spans[1].m_handle # lastOp.span.m_handle
    /\ Len(calls) = 1
    /\ calls[1].fn[2] = "span_end"
    /\ calls[1].handle = lastOp.span.m_handle

\* C28: after set_level, a run of emits at levels within the threshold makes
\* exactly one log_write call on the active backend per emit, in the order
\* of the emits, each with that emit's level and its formatted text.
C28_OncePerEmitInOrder ==
    [][\A batch \in Batches :
          (/\ levelSet
           /\ \A k \in DOMAIN batch :
                 batch[k].level \in 1 .. g_currentLevel
           /\ emit_batch(batch)) =>
             /\ Len(calls') = Len(batch)
             /\ \A k \in DOMAIN batch :
                   calls'[k] = Call(g_activeBackend.log_write, batch[k].level,
                                    Vsnprintf(batch[k].fmt, batch[k].arg),
                                    NULLPTR, 0)]_vars

\* Two emits, WARN "n%d" with 7 and then ERROR "x", under threshold WARN
\* reached backend A as two calls in that order.
C28_Witness ==
    /\ lastOp.op = "emit_batch"
    /\ levelSet
    /\ g_currentLevel = LOG_LEVEL_WARN
    /\ calls = <<Call(Fn("A", "log_write"), LOG_LEVEL_WARN, <<"n", "7">>, NULLPTR, 0),
                 Call(Fn("A", "log_write"), LOG_LEVEL_ERROR, <<"x">>, NULLPTR, 0)>>

\* C29: an emit, a Span constructor or a Span destructor whose level is
\* outside 1..threshold calls no backend operation and leaves the sink, the
\* write buffer, the stream contents, the cached timestamp and its expiry,
\* the sequence counter and its switch, the threshold, the dispatch tables
\* and the active descriptor as they were.
Disabled(level) == ~(level \in 1 .. g_currentLevel)

NoEffect ==
    /\ calls' = <<>>
    /\ UNCHANGED <<g_output, g_writeBuf, files, g_tsCache, g_seqEnabled,
                   g_seqCounter, sent, g_currentLevel, g_logFunctions,
                   g_clockFunctions, g_spanBeginFunctions, g_spanEndFunctions,
                   g_activeBackend>>

C29_DisabledNoEffect ==
    [][/\ \A level \in LJLevels, fmt \in Formats, arg \in FormatArgs :
            (Disabled(level) /\ lj_emit(level, fmt, arg)) => NoEffect
       /\ \A level \in LJLevels, name \in SpanNames :
            (Disabled(level) /\ SpanCtor(level, name)) =>
                NoEffect /\ spans'[Len(spans')].m_handle = NULLPTR
       /\ (lj_span_dtor /\ Disabled(spans[Len(spans)].m_level)) => NoEffect]_vars

\* With the built-in backend installed and buffering, an INFO emit under
\* threshold WARN came after a delivered line: the line is still pending in
\* the buffer and nothing was called.
C29_Witness ==
    /\ lastOp.op = "emit"
    /\ lastOp.level = LOG_LEVEL_INFO
    /\ levelSet
    /\ g_currentLevel = LOG_LEVEL_WARN
    /\ g_activeBackend = LogBackend("builtin")
    /\ calls = <<>>
    /\ Len(sent) = 1
    /\ g_writeBuf.m_pos = Len(sent[1].line)
    /\ files[g_output] = <<>>

C31_InitResets ==
    [][lib_init =>
         /\ get_backend' = LogBackend("builtin")
         /\ get_level' = LOG_LEVEL_INFO
         /\ \A i \in Levels :
               /\ (g_logFunctions'[i] = "log_dispatch")
                     = (i \in LOG_LEVEL_ERROR .. LOG_LEVEL_INFO)
               /\ (g_spanBeginFunctions'[i] = "span_begin_dispatch")
                     = (i \in LOG_LEVEL_ERROR .. LOG_LEVEL_INFO)
               /\ (g_spanEndFunctions'[i] = "span_end_dispatch")
                     = (i \in LOG_LEVEL_ERROR .. LOG_LEVEL_INFO)
               /\ (g_clockFunctions'[i] = "clock_real")
                     = (i \in LOG_LEVEL_ERROR .. LOG_LEVEL_INFO)]_vars

\* init() was called with mock A active, after the built-in backend had
\* already written a line: the built-in backend and INFO are back.
C31_Witness ==
    /\ lastOp.op = "init"
    /\ lastOp.old = LogBackend("A")
    /\ "builtin" \in ready
    /\ g_activeBackend = LogBackend("builtin")
    /\ g_currentLevel = LOG_LEVEL_INFO
    /\ g_logFunctions[LOG_LEVEL_INFO] = "log_dispatch"
    /\ Len(sent) = 1

\* No accepted set_backend and no init has run so far; neither those nor
\* any set_level.
PreInstall == ready = {} /\ pc = "idle"
Fresh == PreInstall /\ ~levelSet

C34_StackOrder ==
    [][\A ss \in Scopes :
          (/\ levelSet
           /\ \A k \in DOMAIN ss : ss[k].level \in 1 .. g_currentLevel
           /\ span_scope(ss)) =>
             LET n == Len(ss) IN
             /\ Len(calls') = 2 * n
             /\ \A k \in 1 .. n :
                   /\ calls'[k] = Call(g_activeBackend.span_begin, ss[k].level,
                                       ss[k].name, NULLPTR, 0)
                   /\ calls'[2 * n + 1 - k].fn = g_activeBackend.span_end
                   /\ calls'[2 * n + 1 - k].level = ss[k].level
                   /\ calls'[2 * n + 1 - k].text = ss[k].name]_vars

\* An ERROR Span around a WARN Span on backend A: begin(ERROR), begin(WARN),
\* end(WARN), end(ERROR).
C34_Witness ==
    /\ lastOp.op = "span_scope"
    /\ Len(calls) = 4
    /\ calls[1].fn = Fn("A", "span_begin") /\ calls[1].level = LOG_LEVEL_ERROR
    /\ calls[2].fn = Fn("A", "span_begin") /\ calls[2].level = LOG_LEVEL_WARN
    /\ calls[3].fn = Fn("A", "span_end") /\ calls[3].level = LOG_LEVEL_WARN
    /\ calls[4].fn = Fn("A", "span_end") /\ calls[4].level = LOG_LEVEL_ERROR

\* C35: every span_end call delivered to a descriptor belongs to a Span whose
\* span_begin was delivered to that same descriptor, and carries the handle
\* that descriptor's span_begin returned for the Span's level and name.
C35_EndAfterOwnBegin ==
    (lastOp.op = "span_dtor" /\ calls # <<>>) =>
        LET s == lastOp.span
            d == Owner(calls[1].fn)
        IN  /\ s.begun
            /\ calls[1].handle =
                  BackendSpanBegin(Fn(d, "span_begin"), s.m_level, s.m_name)

\* C36 (as stated): with sequence numbering enabled, for every cache interval,
\* 0 included, and any number of emitting threads, among lines carrying the
\* same timestamp string the sequence numbers strictly increase in the order
\* the lines reach the sink, so (timestamp, N) never repeats.
C36_SequenceOrdersLines ==
    \A i, j \in DOMAIN sent :
       (/\ i < j
        /\ ~sent[i].recfg
        /\ HasSeq(sent[i].line) /\ HasSeq(sent[j].line)
        /\ TsOf(sent[i].line) = TsOf(sent[j].line))
       => SeqOf(sent[i].line) < SeqOf(sent[j].line)

\* C36 (amended): with sequence numbering enabled and a cache interval above
\* 0, for any number of emitting threads, among lines carrying the same
\* timestamp string with no set_timestamp_cache call since the earlier one,
\* the sequence numbers strictly increase in the order the lines reach the
\* sink.
C36_SequenceOrdersCachedLines ==
    \A i, j \in DOMAIN sent :
       (/\ SameSetting(i, j)
        /\ HasSeq(sent[i].line) /\ HasSeq(sent[j].line)
        /\ TsOf(sent[i].line) = TsOf(sent[j].line))
       => SeqOf(sent[i].line) < SeqOf(sent[j].line)

\* Two threads' lines under one cached timestamp, numbered #0 and #1.
C36_Witness ==
    /\ Len(sent) = 2
    /\ SameSetting(1, 2)
    /\ tloc[1].n + tloc[2].n = 2 /\ tloc[1].n = 1
    /\ TsOf(sent[1].line) = TsOf(sent[2].line)
    /\ HasSeq(sent[1].line) /\ SeqOf(sent[1].line) = 0
    /\ HasSeq(sent[2].line) /\ SeqOf(sent[2].line) = 1

\* The lines emitted while f was the sink, concatenated in emit order.
RECURSIVE LinesTo(_, _)
LinesTo(lines, f) ==
    IF lines = <<>> THEN <<>>
    ELSE LinesTo(SubSeq(lines, 1, Len(lines) - 1), f)
         \o (IF lines[Len(lines)].out = f THEN lines[Len(lines)].line ELSE <<>>)

\* C37: after any single-threaded sequence of emit, flush, set_buffered,
\* set_output and shutdown on the built-in backend in which every sink is a
\* valid stream, once a final flush has returned each sink holds exactly the
\* lines emitted while it was the current sink, each once and whole, in emit
\* order.
C37_EveryLineOnceInOrder ==
    (/\ biOp.op = "flush"
     /\ g_output # NULLFILE
     /\ \A i \in DOMAIN sent : sent[i].out # NULLFILE)
    => /\ ~crashed
       /\ g_writeBuf.m_pos = 0
       /\ \A f \in Files : files[f] = LinesTo(sent, f)

\* A line buffered for stderr, the sink changed, a line buffered for the
\* file, then the final flush with bytes pending.
C37_Witness ==
    /\ biOp.op = "flush" /\ biOp.pending > 0
    /\ Len(sent) = 2
    /\ sent[1].out = STDERR /\ sent[2].out = "f1"
    /\ files[STDERR] = sent[1].line
    /\ files["f1"] = sent[2].line

\* C38: init() or set_backend(builtin_backend()) called while the built-in
\* backend is the active one appends the pending bytes to the sink and makes
\* standard error the sink, and leaves the buffering mode, the buffer
\* capacity, the timestamp-cache interval and the sequence-number setting as
\* they were.
C38_ReinstallKeepsSettings ==
    [][(/\ g_activeBackend = LogBackend("builtin")
        /\ lib_init \/ lj_set_backend(PtrTo(LogBackend("builtin")))) =>
          /\ files' = [files EXCEPT ![g_output] = @ \o Pending(g_writeBuf)]
          /\ g_writeBuf'.m_pos = 0
          /\ g_output' = STDERR
          /\ g_writeBuf'.m_enabled = g_writeBuf.m_enabled
          /\ g_writeBuf'.m_size = g_writeBuf.m_size
          /\ g_tsCache'.m_interval_ms = g_tsCache.m_interval_ms
          /\ g_seqEnabled' = g_seqEnabled]_vars

\* init() called again with the built-in backend active, buffered, caching
\* and numbering, a line pending for the file f1.
C38_Witness ==
    /\ lastOp.op = "init"
    /\ lastOp.old = LogBackend("builtin")
    /\ biOp.op = "shutdown" /\ biOp.pending > 0
    /\ Len(files["f1"]) = biOp.pending
    /\ g_output = STDERR
    /\ g_writeBuf.m_enabled /\ g_writeBuf.m_size > 0 /\ g_writeBuf.m_pos = 0
    /\ g_tsCache.m_interval_ms > 0
    /\ g_seqEnabled

\* C39: while set_level(T2) runs its loop, having started from a threshold T1
\* that an earlier set_level put in force, an emit by another thread at a
\* level L with 1 <= L <= min(T1, T2) is delivered and an emit at a level
\* L > max(T1, T2) is not: a slot that is enabled, or disabled, both before
\* and after the call is never flipped in between.
C39_StableSlotsNeverFlip ==
    [][\A L \in MsgLevels, fmt \in Formats, arg \in FormatArgs :
          (/\ InSteps(SlotSteps, pc)
           /\ lastOp.fromSet
           /\ rd_emit(L, fmt, arg)) =>
             LET T1 == lastOp.from
                 T2 == g_currentLevel
             IN  /\ L <= Min(T1, T2) => calls' # <<>>
                 /\ (L > T1 /\ L > T2) => calls' = <<>>]_vars

\* set_level(ERROR) from INFO has rewritten slot 1 and not yet slots 2 and 3;
\* an emit at ERROR was delivered meanwhile.
C39_Witness ==
    /\ pc = "sl_2_log"
    /\ lastOp.fromSet
    /\ lastOp.from = LOG_LEVEL_INFO
    /\ g_currentLevel = LOG_LEVEL_ERROR
    /\ g_logFunctions[LOG_LEVEL_INFO] = "log_dispatch"
    /\ Len(calls) = 1
    /\ calls[1].level = LOG_LEVEL_ERROR
    /\ calls[1].fn[2] = "log_write"

====
